---- MODULE Spec2Model ----
(***************************************************************************)
(* A model of the experiment orchestration plans of hyperion/artemis:      *)
(*   - the top-up gate        (hyperion/device_setup_plans/check_topup.py) *)
(*   - the default-state move sequence (artemis/UDC_move_to_default_state) *)
(*   - the stepped grid-scan plan                                          *)
(*                  (artemis/experiment_plans/stepped_grid_scan_plan.py)   *)
(* Each plan is a bluesky generator: every message it yields (a read, a    *)
(* set, a sleep, a wait) is one step of the model, and the values the      *)
(* hardware returns to a read are inputs drawn from small sets.            *)
(***************************************************************************)
EXTENDS Integers, Sequences, FiniteSets, TLC

VARIABLES
    \* ---- top-up gate: check_topup_and_wait_if_necessary ----
    gate_pc,              \* the statement of the gate about to run
    total_exposure_time,  \* argument, seconds
    ops_time,             \* argument, seconds
    machine_mode,         \* local: synchrotron_mode read at entry
    time_to_topup,        \* local: start_countdown read at entry
    end_topup,            \* local: end_countdown read at entry
    time_to_wait,         \* local: argument of the one bps.sleep of the gate
    check_start,          \* local: start_countdown read after the sleep
    start,                \* local of wait_for_topup_complete
    gate_log,             \* the messages the gate has yielded, in order
    \* ---- default-state sequence: move_to_default_UDC_state ----
    udc_pc,               \* the statement of the sequence about to run
    udc_run,              \* 1 for the first run, 2 for the run that follows it, ...
    pos,                  \* the position of every axis (thousandths of a unit)
    udc_pos0,             \* pos when the current run started
    cryo_backpressure,    \* local of check_backpressure
    cryo_temp,            \* local of check_temp
    udc_group,            \* moves commanded and not yet complete: {<<axis, target>>}
    udc_done,             \* moves of this run whose completion was observed
    udc_log,              \* the rd / set / null messages of this run, in order
    udc_exc,              \* the exception that ended the run, or "none"
    udc_sets,             \* sets of the bps.mv the plan is in that were issued
    \* ---- stepped grid-scan plan: get_plan ----
    plan_pc,              \* the statement of the plan about to run
    plan_stack,           \* the decorators (finalize, subs, run, stage) entered and not left
    plan_exc,             \* the exception in flight or delivered to the caller, or "none"
    plan_subs,            \* the callbacks subscribed to the document stream
    plan_log,             \* messages yielded and external calls made, in order
    fgs_checks,           \* wait_for_fgs_valid: iterations of the loop completed
    datacollection_ids,   \* the ids the ISPyB handler holds for the Zocalo handler
    initial_xyz,          \* local of run_gridscan_and_move
    xray_centre,          \* local of run_gridscan_and_move
    bbox_size,            \* local of run_gridscan_and_move
    zocalo_answer,        \* history: what the service answered to the plan's rendezvous
    abort_requested,      \* RunEngine.abort() was called while the plan was in the rendezvous
    aperture_in_place,    \* the aperture the aperture device is at
    aperture_before_set,  \* history: the aperture in place when the plan set one
    plan_fault,           \* history: the exceptions raised into the plan, and where
    \* ---- ISPyB recorder: BaseISPyBCallback ----
    rec_docs,             \* documents delivered (and methods called) so far
    rec_last,             \* the last document delivered: its kind and the uid it names
    rec_stream,           \* every document delivered so far, in order
    rec_params,           \* self.params: None, or which readings it holds
    rec_ispyb,            \* self.ispyb: unset, None, or the store
    rec_descriptors,      \* self.descriptors: the uids of the descriptors kept
    rec_uid_to_finalize_on, \* self.uid_to_finalize_on
    rec_ispyb_ids,        \* self.ispyb_ids: None, or what begin_deposition returned
    rec_calls,            \* the calls made to the ISPyB store, in order
    rec_exc,              \* the exception that left the last handler, or "none"
    rec_starts_seen,      \* history: the runs whose start document was delivered
    rec_events_seen,      \* history: the descriptor names of the events delivered
    \* ---- result rendezvous: the Zocalo interaction ----
    zoc_calls,            \* calls made to the rendezvous so far
    zoc_sent,             \* the ids submitted, and the messages sent to the service
    zoc_requested,        \* history: every id run_start was called with, in order
    zoc_cache,            \* per group: None, or the outcome kept for it
    zoc_answer,           \* history, per group: what the service answered first
    zoc_fallback,         \* history, per group: the fallback of the first rendezvous
    zoc_first,            \* history, per group: what the first rendezvous returned
    zoc_waits,            \* history, per group: the calls of wait_for_results
    zoc_fetches,          \* per group: how often the service was asked for the result
    zoc_comments,         \* per group: the comments appended to its record
    zoc_returned,         \* what the last wait_for_results returned, and for which group
    \* ---- flyscan xray-centre plan: centre and commit ----
    fly_pc,               \* the statement run_gridscan_and_move is at
    fly_set_stub_offsets, \* experiment_params.set_stub_offsets
    fly_exc,              \* the exception that left the plan, or "none"
    fly_initial_xyz,      \* the sample position read before the scan
    fly_centre,           \* what wait_for_results returned: the centre
    fly_bbox,             \* what wait_for_results returned: the bounding box
    fly_log,              \* messages yielded and calls made, in order
    fly_centred_at,       \* where the completed sample move went, or None
    fly_stub_offsets_proc,\* stub_offsets.center_at_current_position.proc
    \* ---- the plan runner and the tests' MockRunEngine ----
    run_status,           \* the runner's current status and message
    run_queue,            \* start commands waiting for the worker
    run_requests,         \* history: the requests made and their responses
    run_worker,           \* the worker thread: stopped, waiting, or where in RE.__call__
    run_stopper,          \* the stopping thread: none, where in RE.abort(), or how it ended
    run_ended,            \* history: how the last plan ended, None while none has
    run_stopped,          \* a stop was accepted and the worker has not ended a plan since
    run_started,          \* history: the plans handed to the run engine
    RE_takes_time,        \* MockRunEngine.RE_takes_time
    aborting_takes_time,  \* MockRunEngine.aborting_takes_time
    RE_error,             \* MockRunEngine.error
    \* ---- ISPyB deposition bracket: StoreInIspyb as a context manager ----
    dep_pc,               \* where the bracket is: outside, inside, updating (in __exit__), left
    dep_is_3d,            \* StoreInIspyb3D (two records) or StoreInIspyb2D (one)
    dep_ids,              \* self.datacollection_ids
    dep_group,            \* self.datacollection_group_id
    dep_exception,        \* what the body was left with
    dep_now,              \* datetime.now(), in ticks
    dep_current_time,     \* current_time of __exit__
    dep_run_status,       \* run_status of __exit__
    dep_i,                \* the round the loop of __exit__ is at
    dep_updates,          \* the end-time/status upserts made, in order
    \* ---- fast grid-scan plan: run_gridscan and its NeXus writer ----
    fast_pc,              \* the message run_gridscan is at, or done / raised
    fast_exc,             \* the exception in flight, or None
    fast_fault_at,        \* history: the message the first exception was raised at
    fast_writer,          \* the NeXus writer: unopened, open, closed
    fast_opened,          \* history: how often the writer was opened
    fast_closed,          \* history: how often the writer was closed
    fast_log,             \* messages done and calls made, in order
    fast_datacollection_ids, \* the ids store_grid_scan returned, <<>> before it
    \* ---- parameters: flatten_dict ----
    flat_pc,              \* where InternalParameters.__init__ is
    flat_input,           \* external_params
    flat_result,          \* what flatten_dict did: raised, or the items returned
    \* ---- grid detection, then the x-ray centring scan ----
    det_pc,               \* the message the plan is at, or start, done, raised
    det_checks,           \* checks of the detector made by wait_for_det_to_finish_moving
    detector_state,       \* the shutter state last read, None before
    detector_z_dmov,      \* detector z DMOV last read, None before
    det_log,              \* sub-plans started and commands issued, in order
    det_exc,              \* the exception that ended the plan, None if none
    \* ---- PandA set-up for the fly scan ----
    panda_pc,             \* the message setup_panda_for_flyscan is at, or returned, raised
    panda_initial_x,      \* initial_x
    panda_status,         \* of each signal: unset, or its set pending, done, failed
    panda_log,            \* the commands issued, in order
    panda_exc             \* the exception that ended the plan, None if none

gateVars == <<gate_pc, total_exposure_time, ops_time, machine_mode, time_to_topup,
              end_topup, time_to_wait, check_start, start, gate_log>>

udcVars == <<udc_pc, udc_run, pos, udc_pos0, cryo_backpressure, cryo_temp,
             udc_group, udc_done, udc_log, udc_exc, udc_sets>>

planVars == <<plan_pc, plan_stack, plan_exc, plan_subs, plan_log, fgs_checks,
              datacollection_ids, initial_xyz, xray_centre, bbox_size, zocalo_answer,
              abort_requested, aperture_in_place, aperture_before_set, plan_fault>>

recVars == <<rec_docs, rec_last, rec_stream, rec_params, rec_ispyb, rec_descriptors, rec_uid_to_finalize_on,
             rec_ispyb_ids, rec_calls, rec_exc, rec_starts_seen, rec_events_seen>>

zocVars == <<zoc_calls, zoc_sent, zoc_requested, zoc_cache, zoc_answer, zoc_fallback,
             zoc_first, zoc_waits, zoc_fetches, zoc_comments, zoc_returned>>

flyVars == <<fly_pc, fly_set_stub_offsets, fly_exc, fly_initial_xyz, fly_centre, fly_bbox, fly_log,
             fly_centred_at, fly_stub_offsets_proc>>

runVars == <<run_status, run_queue, run_requests, run_worker, run_stopper, run_ended,
             run_stopped, run_started, RE_takes_time, aborting_takes_time, RE_error>>

depVars == <<dep_pc, dep_is_3d, dep_ids, dep_group, dep_exception, dep_now,
             dep_current_time, dep_run_status, dep_i, dep_updates>>

fastVars == <<fast_pc, fast_exc, fast_fault_at, fast_writer, fast_opened, fast_closed,
              fast_log, fast_datacollection_ids>>

flatVars == <<flat_pc, flat_input, flat_result>>

detVars == <<det_pc, det_checks, detector_state, detector_z_dmov, det_log, det_exc>>

pandaVars == <<panda_pc, panda_initial_x, panda_status, panda_log, panda_exc>>

vars == <<gateVars, udcVars, planVars, recVars, zocVars, flyVars, runVars, depVars, fastVars, flatVars, detVars, pandaVars>>

\* What the steps of one plan leave alone: the state of the other plans.
notGate == <<udcVars, planVars, recVars, zocVars, flyVars, runVars, depVars, fastVars, flatVars, detVars, pandaVars>>
notUdc == <<gateVars, planVars, recVars, zocVars, flyVars, runVars, depVars, fastVars, flatVars, detVars, pandaVars>>
notPlan == <<gateVars, udcVars, recVars, zocVars, flyVars, runVars, depVars, fastVars, flatVars, detVars, pandaVars>>
notRec == <<gateVars, udcVars, planVars, zocVars, flyVars, runVars, depVars, fastVars, flatVars, detVars, pandaVars>>
notZoc == <<gateVars, udcVars, planVars, recVars, flyVars, runVars, depVars, fastVars, flatVars, detVars, pandaVars>>
notFly == <<gateVars, udcVars, planVars, recVars, zocVars, runVars, depVars, fastVars, flatVars, detVars, pandaVars>>
notRun == <<gateVars, udcVars, planVars, recVars, zocVars, flyVars, depVars, fastVars, flatVars, detVars, pandaVars>>
notDep == <<gateVars, udcVars, planVars, recVars, zocVars, flyVars, runVars, fastVars, flatVars, detVars, pandaVars>>
notFast == <<gateVars, udcVars, planVars, recVars, zocVars, flyVars, runVars, depVars, flatVars, detVars, pandaVars>>
notFlat == <<gateVars, udcVars, planVars, recVars, zocVars, flyVars, runVars, depVars, fastVars, detVars, pandaVars>>
notDet == <<gateVars, udcVars, planVars, recVars, zocVars, flyVars, runVars, depVars, fastVars, flatVars, pandaVars>>
notPanda == <<gateVars, udcVars, planVars, recVars, zocVars, flyVars, runVars, depVars, fastVars, flatVars, detVars>>

\* A Python local is None until it is assigned, and Some(v) once it holds v.
None == <<>>
Some(v) == <<v>>
Val(x) == x[1]

(***************************************************************************)
(*                              TOP-UP GATE                                *)
(* Countdowns, exposure and overhead are whole seconds.  gate_log records  *)
(* a sleep's duration in tenths of a second (Tenths), so bps.sleep(0.1)    *)
(* is recorded as 1 and bps.sleep(3) as 30.                                *)
(***************************************************************************)

\* ---- bounds of the model ----
MaxCountdown == 2   \* start_countdown / end_countdown reads range over -1..MaxCountdown
MaxTime == 2        \* total_exposure_time and ops_time range over 0..MaxTime
MaxPolls == 2       \* the polling loop of wait_for_topup_complete sleeps at most this often

\* ---- program constants ----
DECAY_MODE_COUNTDOWN == -1
COUNTDOWN_DURING_TOPUP == 0
POLL_SLEEP_TENTHS == 1

USER == "User"
SPECIAL == "Special"
ALLOWED_MODES == {USER, SPECIAL}
\* SynchrotronMode values the machine status can report (two allowed, two not).
SynchrotronModes == {USER, SPECIAL, "Shutdown", "Injection"}

Countdowns == DECAY_MODE_COUNTDOWN .. MaxCountdown
EndCountdowns == 0 .. MaxCountdown
Times == 0 .. MaxTime

Tenths(seconds) == 10 * seconds

\* ---- messages ----
RdMsg(signal, value) == [op |-> "rd", signal |-> signal, value |-> value]
SleepMsg(tenths) == [op |-> "sleep", signal |-> "", value |-> tenths]
NullMsg == [op |-> "null", signal |-> "", value |-> 0]

Sleeps(log) == SelectSeq(log, LAMBDA m : m.op = "sleep")
StartReads(log) == SelectSeq(log, LAMBDA m : m.op = "rd" /\ m.signal = "start_countdown")

\* The sleeps of the polling loop: every sleep after the gate's own (the first).
PollSleeps(log) == Tail(Sleeps(log))

\* The values a start_countdown read of the polling loop may return: the loop is
\* unbounded in the code; the model lets the read return 0 (top-up in progress)
\* until MaxPolls sleeps have been made.
PollReads(log) ==
    IF Len(PollSleeps(log)) < MaxPolls THEN Countdowns
    ELSE Countdowns \ {COUNTDOWN_DURING_TOPUP}

\* ---- pure helpers ----
\* mutant: the sentinel compared is the top-up-in-progress value, not the decay one
MutInDecayModeWrongSentinel(t) == t = COUNTDOWN_DURING_TOPUP

_in_decay_mode(t) == t = DECAY_MODE_COUNTDOWN

\* mutant: gating is applied in every machine mode
MutGatingAlwaysPermitted(mode) == TRUE

_gating_permitted(mode) == mode \in ALLOWED_MODES

\* mutant: a run that ends exactly at the top-up is delayed too
MutDelayWhenEqual(total_run_time, t) == total_run_time >= t

_delay_to_avoid_topup(total_run_time, t) == total_run_time > t

\* line 67: the gate is skipped (short-circuit or)
GateSkipped(t, mode) == _in_decay_mode(t) \/ ~_gating_permitted(mode)

\* lines 72-74
TimeToWait(total_run_time, t, e) ==
    IF _delay_to_avoid_topup(total_run_time, t) THEN e ELSE 0

\* line 79: a top-up is in progress after the sleep
TopupInProgress(v) == v = COUNTDOWN_DURING_TOPUP

\* mutant: the polling loop is left after its first read, whatever it returned
MutWaitLoopNever(v) == FALSE

\* wait_for_topup_complete, line 45: the loop condition
WaitLoopContinues(v) == v = COUNTDOWN_DURING_TOPUP

\* The gate when no plan is running it.
GateIdle ==
    /\ gate_pc = "idle"
    /\ total_exposure_time = 0
    /\ ops_time = 0
    /\ machine_mode = None
    /\ time_to_topup = None
    /\ end_topup = None
    /\ time_to_wait = None
    /\ check_start = None
    /\ start = None
    /\ gate_log = <<>>

GateInit ==
    /\ gate_pc = "rd_machine_mode"
    /\ total_exposure_time \in Times
    /\ ops_time \in Times
    /\ machine_mode = None
    /\ time_to_topup = None
    /\ end_topup = None
    /\ time_to_wait = None
    /\ check_start = None
    /\ start = None
    /\ gate_log = <<>>

\* line 65
gate_rd_machine_mode ==
    /\ gate_pc = "rd_machine_mode"
    /\ \E m \in SynchrotronModes :
          /\ machine_mode' = Some(m)
          /\ gate_log' = Append(gate_log, RdMsg("synchrotron_mode", m))
    /\ gate_pc' = "rd_time_to_topup"
    /\ UNCHANGED <<total_exposure_time, ops_time, time_to_topup, end_topup,
                   time_to_wait, check_start, start>>
    /\ UNCHANGED notGate

\* lines 66-67: read the start countdown and decide whether the gate applies
gate_rd_time_to_topup ==
    /\ gate_pc = "rd_time_to_topup"
    /\ \E t \in Countdowns :
          /\ time_to_topup' = Some(t)
          /\ gate_log' = Append(gate_log, RdMsg("start_countdown", t))
          /\ gate_pc' = IF GateSkipped(t, Val(machine_mode)) THEN "null" ELSE "rd_end_topup"
    /\ UNCHANGED <<total_exposure_time, ops_time, machine_mode, end_topup,
                   time_to_wait, check_start, start>>
    /\ UNCHANGED notGate

\* mutant: outside the allowed modes (or in decay mode) the gate fails the plan
MutGateNullRaises ==
    /\ gate_pc = "null"
    /\ gate_log' = Append(gate_log, NullMsg)
    /\ gate_pc' = "raised"
    /\ UNCHANGED <<total_exposure_time, ops_time, machine_mode, time_to_topup,
                   end_topup, time_to_wait, check_start, start>>
    /\ UNCHANGED notGate

\* lines 68-69
gate_null ==
    /\ gate_pc = "null"
    /\ gate_log' = Append(gate_log, NullMsg)
    /\ gate_pc' = "returned"
    /\ UNCHANGED <<total_exposure_time, ops_time, machine_mode, time_to_topup,
                   end_topup, time_to_wait, check_start, start>>
    /\ UNCHANGED notGate

\* lines 70-74
gate_rd_end_topup ==
    /\ gate_pc = "rd_end_topup"
    /\ \E e \in EndCountdowns :
          /\ end_topup' = Some(e)
          /\ time_to_wait' = Some(TimeToWait(total_exposure_time + ops_time,
                                            Val(time_to_topup), e))
          /\ gate_log' = Append(gate_log, RdMsg("end_countdown", e))
    /\ gate_pc' = "sleep"
    /\ UNCHANGED <<total_exposure_time, ops_time, machine_mode, time_to_topup,
                   check_start, start>>
    /\ UNCHANGED notGate

\* line 76
gate_sleep ==
    /\ gate_pc = "sleep"
    /\ gate_log' = Append(gate_log, SleepMsg(Tenths(Val(time_to_wait))))
    /\ gate_pc' = "rd_check_start"
    /\ UNCHANGED <<total_exposure_time, ops_time, machine_mode, time_to_topup,
                   end_topup, time_to_wait, check_start, start>>
    /\ UNCHANGED notGate

\* lines 78-80
gate_rd_check_start ==
    /\ gate_pc = "rd_check_start"
    /\ \E v \in Countdowns :
          /\ check_start' = Some(v)
          /\ gate_log' = Append(gate_log, RdMsg("start_countdown", v))
          /\ gate_pc' = IF TopupInProgress(v) THEN "wait_rd" ELSE "returned"
    /\ UNCHANGED <<total_exposure_time, ops_time, machine_mode, time_to_topup,
                   end_topup, time_to_wait, start>>
    /\ UNCHANGED notGate

\* wait_for_topup_complete, lines 44-45 and 47-45: read, then test the loop condition
wait_for_topup_complete_rd ==
    /\ gate_pc = "wait_rd"
    /\ \E v \in PollReads(gate_log) :
          /\ start' = Some(v)
          /\ gate_log' = Append(gate_log, RdMsg("start_countdown", v))
          /\ gate_pc' = IF WaitLoopContinues(v) THEN "wait_sleep" ELSE "returned"
    /\ UNCHANGED <<total_exposure_time, ops_time, machine_mode, time_to_topup,
                   end_topup, time_to_wait, check_start>>
    /\ UNCHANGED notGate

\* wait_for_topup_complete, line 46
wait_for_topup_complete_sleep ==
    /\ gate_pc = "wait_sleep"
    /\ gate_log' = Append(gate_log, SleepMsg(POLL_SLEEP_TENTHS))
    /\ gate_pc' = "wait_rd"
    /\ UNCHANGED <<total_exposure_time, ops_time, machine_mode, time_to_topup,
                   end_topup, time_to_wait, check_start, start>>
    /\ UNCHANGED notGate

check_topup_and_wait_if_necessary ==
    \/ gate_rd_machine_mode
    \/ gate_rd_time_to_topup
    \/ gate_null
    \/ gate_rd_end_topup
    \/ gate_sleep
    \/ gate_rd_check_start
    \/ wait_for_topup_complete_rd
    \/ wait_for_topup_complete_sleep

GateNext == check_topup_and_wait_if_necessary


(***************************************************************************)
(*                        DEFAULT-STATE SEQUENCE                           *)
(* Positions, targets and limits are in thousandths of the source's unit:  *)
(* 0.016 is 16, -4.91 is -4910, 25 is 25000.  bps.mv(a, x, b, y) sets a    *)
(* and b in one group, one set message after the other, and waits for the  *)
(* group; a set completes on its own, in any order within the group, or    *)
(* fails.  An action runs the plan from one message to the next.           *)
(***************************************************************************)

\* ---- bound of the model ----
MaxRuns == 2        \* the sequence is run this many times in succession

\* ---- program constants ----
\* cryo.IN and fluo.OUT, with the values lines 43-44 give IN and OUT
cryo_IN == 1
fluo_OUT == 0

Axes == {"scin_y", "scin_z", "mapt_x", "mapt_y", "mapt_z", "sg_x", "fluo_pos",
         "sgon_chi", "sgon_x", "sgon_y", "sgon_z", "sgon_phi", "sgon_omega",
         "gonp_x", "gonp_z", "bs_x", "bs_y", "bs_z", "cryo_course", "cryo_fine"}

\* The arguments of each bps.mv of the sequence, named by its source line.
Batch55 == << <<"scin_y", 15>>, <<"mapt_x", -4910>>, <<"sg_x", -4750>> >>
Batch56 == << <<"scin_z", 100>> >>
Batch120 == << <<"fluo_pos", fluo_OUT>> >>
Batch121 == << <<"sgon_chi", 0>> >>
Batch122 == << <<"sgon_x", 0>>, <<"sgon_y", 0>>, <<"sgon_z", 0>>, <<"sgon_phi", 0>>,
               <<"sgon_omega", 0>>, <<"gonp_x", 0>>, <<"gonp_z", 0>> >>
Batch62 == << <<"bs_z", 30000>> >>
Batch63 == << <<"bs_y", 45000>>, <<"bs_x", 1600>> >>
Batch124 == << <<"mapt_z", 15800>> >>
Batch125 == << <<"mapt_x", 2564>>, <<"mapt_y", 31400>> >>
Batch126 == << <<"cryo_course", cryo_IN>>, <<"cryo_fine", cryo_IN>> >>

\* line 52: the scintillator is already safe
ScinSafe(y, z) == y < 16 /\ z < 100

\* mutant: the guard's z limit is the target itself, as in the scintillator guard
MutBsInLimitAtTarget(z, y) == z > 30000 /\ y > 25000

\* line 59: the beamstop is already in
BsIn(z, y) == z > 25000 /\ y > 25000

\* line 68
TempTooHigh(t) == t > 110000

\* line 76
BackpressureTooHigh(b) == b > 100

\* ---- messages ----
UdcRd(axis, value) == [op |-> "rd", axis |-> axis, value |-> value]
UdcSet(axis, value) == [op |-> "set", axis |-> axis, value |-> value]
UdcNull == [op |-> "null", axis |-> "", value |-> 0]

SetMsgs(batch) == [i \in 1..Len(batch) |-> UdcSet(batch[i][1], batch[i][2])]
Range(seq) == {seq[i] : i \in 1..Len(seq)}
SetsOf(log) == SelectSeq(log, LAMBDA m : m.op = "set")

\* ---- inputs ----
\* Starting positions: the four axes the guards read take a value on each side
\* of, and on, their limit; every other axis starts at its final target or away
\* from it.
ScinYStarts == {15, 16, 40}
ScinZStarts == {50, 100, 200}
BsStarts == {0, 25000, 45000}
AwayFromTarget == {7000}
FinalTarget ==
    [a \in Axes |->
        CASE a = "scin_y" -> 15 [] a = "scin_z" -> 100 [] a = "sg_x" -> -4750
          [] a = "mapt_x" -> 2564 [] a = "mapt_y" -> 31400 [] a = "mapt_z" -> 15800
          [] a = "fluo_pos" -> fluo_OUT [] a = "bs_x" -> 1600 [] a = "bs_y" -> 45000
          [] a = "bs_z" -> 30000 [] a \in {"cryo_course", "cryo_fine"} -> cryo_IN
          [] OTHER -> 0]
StartPositions ==
    { [a \in Axes |->
          CASE a = "scin_y" -> sy [] a = "scin_z" -> sz
            [] a = "bs_z" -> bz [] a = "bs_y" -> by
            [] OTHER -> IF atTarget THEN FinalTarget[a] ELSE away] :
      sy \in ScinYStarts, sz \in ScinZStarts, bz \in BsStarts, by \in BsStarts,
      atTarget \in BOOLEAN, away \in AwayFromTarget }
\* What the cryostream reads: at the limit and above it.
CryoTemps == {110000, 110001}
CryoBackpressures == {100, 101}

UdcIdle ==
    /\ udc_pc = "idle"
    /\ udc_run = 0
    /\ pos = FinalTarget
    /\ udc_pos0 = FinalTarget
    /\ cryo_backpressure = None
    /\ cryo_temp = None
    /\ udc_group = {}
    /\ udc_done = {}
    /\ udc_log = <<>>
    /\ udc_exc = "none"
    /\ udc_sets = 0

UdcInit ==
    /\ udc_pc = "check_backpressure"
    /\ udc_run = 1
    /\ pos \in StartPositions
    /\ udc_pos0 = pos
    /\ cryo_backpressure = None
    /\ cryo_temp = None
    /\ udc_group = {}
    /\ udc_done = {}
    /\ udc_log = <<>>
    /\ udc_exc = "none"
    /\ udc_sets = 0

\* bps.mv(...): the next set message of the batch is issued; after the last
\* one the plan is at the wait message for the group, `wait`.
mv(batch, wait) ==
    LET i == udc_sets + 1 IN
    /\ udc_log' = Append(udc_log, UdcSet(batch[i][1], batch[i][2]))
    /\ udc_group' = udc_group \cup {batch[i]}
    /\ udc_pc' = IF i = Len(batch) THEN wait ELSE udc_pc
    /\ udc_sets' = IF i = Len(batch) THEN 0 ELSE i
    /\ UNCHANGED <<udc_run, pos, udc_pos0, cryo_backpressure, cryo_temp, udc_done, udc_exc>>
    /\ UNCHANGED notUdc

\* lines 75-79: the value is read and, when too high, only printed
check_backpressure ==
    /\ udc_pc = "check_backpressure"
    /\ \E b \in CryoBackpressures :
          /\ cryo_backpressure' = Some(b)
          /\ udc_log' = Append(udc_log, UdcRd("cryo_backpress", b))
    /\ udc_pc' = "check_backpressure_null"
    /\ UNCHANGED <<udc_run, pos, udc_pos0, cryo_temp, udc_group, udc_done, udc_exc,
                   udc_sets>>
    /\ UNCHANGED notUdc

\* line 80
check_backpressure_null ==
    /\ udc_pc = "check_backpressure_null"
    /\ udc_log' = Append(udc_log, UdcNull)
    /\ udc_pc' = "check_temp"
    /\ UNCHANGED <<udc_run, pos, udc_pos0, cryo_backpressure, cryo_temp, udc_group,
                   udc_done, udc_exc, udc_sets>>
    /\ UNCHANGED notUdc

\* mutant: the temperature is not read before the moves begin
MutCheckTempLeftOut ==
    /\ udc_pc = "check_temp"
    /\ udc_pc' = "make_scin_safe"
    /\ UNCHANGED <<udc_run, pos, udc_pos0, cryo_backpressure, cryo_temp, udc_group,
                   udc_done, udc_log, udc_exc, udc_sets>>
    /\ UNCHANGED notUdc

\* lines 67-71: the value is read and, when too high, only printed
check_temp ==
    /\ udc_pc = "check_temp"
    /\ \E t \in CryoTemps :
          /\ cryo_temp' = Some(t)
          /\ udc_log' = Append(udc_log, UdcRd("cryo_temp", t))
    /\ udc_pc' = "check_temp_null"
    /\ UNCHANGED <<udc_run, pos, udc_pos0, cryo_backpressure, udc_group, udc_done,
                   udc_exc, udc_sets>>
    /\ UNCHANGED notUdc

\* line 72
check_temp_null ==
    /\ udc_pc = "check_temp_null"
    /\ udc_log' = Append(udc_log, UdcNull)
    /\ udc_pc' = "make_scin_safe"
    /\ UNCHANGED <<udc_run, pos, udc_pos0, cryo_backpressure, cryo_temp, udc_group,
                   udc_done, udc_exc, udc_sets>>
    /\ UNCHANGED notUdc

\* The value the last read message returned.
LastRead == udc_log[Len(udc_log)].value

\* line 52: scin.y is read; scin.z is read next only if scin.y passed
\* (short-circuit and)
make_scin_safe ==
    /\ udc_pc = "make_scin_safe"
    /\ udc_log' = Append(udc_log, UdcRd("scin_y", pos["scin_y"]))
    /\ udc_pc' = IF pos["scin_y"] < 16 THEN "make_scin_safe_rd_scin_z" ELSE "mv55"
    /\ UNCHANGED <<udc_run, pos, udc_pos0, cryo_backpressure, cryo_temp, udc_group,
                   udc_done, udc_exc, udc_sets>>
    /\ UNCHANGED notUdc

\* line 52: scin.z is read, and the guard decides
make_scin_safe_rd_scin_z ==
    /\ udc_pc = "make_scin_safe_rd_scin_z"
    /\ udc_log' = Append(udc_log, UdcRd("scin_z", pos["scin_z"]))
    /\ udc_pc' = IF ScinSafe(LastRead, pos["scin_z"]) THEN "mv120" ELSE "mv55"
    /\ UNCHANGED <<udc_run, pos, udc_pos0, cryo_backpressure, cryo_temp, udc_group,
                   udc_done, udc_exc, udc_sets>>
    /\ UNCHANGED notUdc

\* mutant: lines 55-56 merged into one bps.mv, so scin.z moves with the others
MutScinOneBatch ==
    /\ udc_pc = "mv55"
    /\ mv(Batch55 \o Batch56, "wait56")

\* line 55
make_scin_safe_mv55 ==
    /\ udc_pc = "mv55"
    /\ mv(Batch55, "wait55")
\* line 56
make_scin_safe_mv56 ==
    /\ udc_pc = "mv56"
    /\ mv(Batch56, "wait56")
\* line 120
mv_fluo ==
    /\ udc_pc = "mv120"
    /\ mv(Batch120, "wait120")
\* line 121
mv_chi ==
    /\ udc_pc = "mv121"
    /\ mv(Batch121, "wait121")
\* line 122
mv_gonio ==
    /\ udc_pc = "mv122"
    /\ mv(Batch122, "wait122")

\* line 59: bs.z is read; bs.y is read next only if bs.z passed
put_bs_in ==
    /\ udc_pc = "put_bs_in"
    /\ udc_log' = Append(udc_log, UdcRd("bs_z", pos["bs_z"]))
    /\ udc_pc' = IF pos["bs_z"] > 25000 THEN "put_bs_in_rd_bs_y" ELSE "mv62"
    /\ UNCHANGED <<udc_run, pos, udc_pos0, cryo_backpressure, cryo_temp, udc_group,
                   udc_done, udc_exc, udc_sets>>
    /\ UNCHANGED notUdc

\* line 59: bs.y is read, and the guard decides
put_bs_in_rd_bs_y ==
    /\ udc_pc = "put_bs_in_rd_bs_y"
    /\ udc_log' = Append(udc_log, UdcRd("bs_y", pos["bs_y"]))
    /\ udc_pc' = IF BsIn(LastRead, pos["bs_y"]) THEN "mv124" ELSE "mv62"
    /\ UNCHANGED <<udc_run, pos, udc_pos0, cryo_backpressure, cryo_temp, udc_group,
                   udc_done, udc_exc, udc_sets>>
    /\ UNCHANGED notUdc

\* mutant: lines 62-63 merged into one bps.mv, so bs.z, bs.y and bs.x move together
MutBsOneBatch ==
    /\ udc_pc = "mv62"
    /\ mv(Batch62 \o Batch63, "wait63")

\* line 62
put_bs_in_mv62 ==
    /\ udc_pc = "mv62"
    /\ mv(Batch62, "wait62")
\* line 63
put_bs_in_mv63 ==
    /\ udc_pc = "mv63"
    /\ mv(Batch63, "wait63")
\* line 124
mv_mapt_z ==
    /\ udc_pc = "mv124"
    /\ mv(Batch124, "wait124")
\* line 125
mv_mapt_xy ==
    /\ udc_pc = "mv125"
    /\ mv(Batch125, "wait125")
\* line 126
mv_cryo ==
    /\ udc_pc = "mv126"
    /\ mv(Batch126, "wait126")

\* The statement that follows each wait.
AfterWait ==
    [w \in {"wait55", "wait56", "wait120", "wait121", "wait122", "wait62", "wait63",
            "wait124", "wait125", "wait126"} |->
        CASE w = "wait55" -> "mv56" [] w = "wait56" -> "mv120" [] w = "wait120" -> "mv121"
          [] w = "wait121" -> "mv122" [] w = "wait122" -> "put_bs_in"
          [] w = "wait62" -> "mv63" [] w = "wait63" -> "mv124" [] w = "wait124" -> "mv125"
          [] w = "wait125" -> "mv126" [] w = "wait126" -> "done"]

\* The statements at which the plan is at a set message of a bps.mv, and the
\* read messages of the sequence.
MvStatements == {"mv55", "mv56", "mv120", "mv121", "mv122", "mv62", "mv63", "mv124",
                 "mv125", "mv126"}
RdStatements == {"check_backpressure", "check_temp", "make_scin_safe",
                 "make_scin_safe_rd_scin_z", "put_bs_in", "put_bs_in_rd_bs_y"}
NullStatements == {"check_backpressure_null", "check_temp_null"}

\* One commanded move completes, while the plan issues the next set of the
\* batch or waits for the group: the axis is at its target.
udc_move_completes ==
    /\ udc_pc \in DOMAIN AfterWait \cup MvStatements
    /\ \E m \in udc_group :
          /\ pos' = [pos EXCEPT ![m[1]] = m[2]]
          /\ udc_group' = udc_group \ {m}
          /\ udc_done' = udc_done \cup {m}
    /\ UNCHANGED <<udc_pc, udc_run, udc_pos0, cryo_backpressure, cryo_temp, udc_log,
                   udc_exc, udc_sets>>
    /\ UNCHANGED notUdc

\* The wait of bps.mv returns once every move of the group is complete.
udc_wait_returns ==
    /\ udc_pc \in DOMAIN AfterWait
    /\ udc_group = {}
    /\ udc_pc' = AfterWait[udc_pc]
    /\ UNCHANGED <<udc_run, pos, udc_pos0, cryo_backpressure, cryo_temp, udc_group,
                   udc_done, udc_log, udc_exc, udc_sets>>
    /\ UNCHANGED notUdc

\* mutant: the failure is noted and the sequence goes on with the next batch
MutMoveFailureNoted ==
    /\ udc_pc \in DOMAIN AfterWait
    /\ udc_group # {}
    /\ udc_pc' = AfterWait[udc_pc]
    /\ udc_exc' = "FailedStatus"
    /\ UNCHANGED <<udc_run, pos, udc_pos0, cryo_backpressure, cryo_temp, udc_group,
                   udc_done, udc_log, udc_sets>>
    /\ UNCHANGED notUdc

\* One commanded move fails: the wait raises and the plan ends there.
udc_move_fails ==
    /\ udc_pc \in DOMAIN AfterWait
    /\ udc_group # {}
    /\ udc_pc' = "aborted"
    /\ udc_exc' = "FailedStatus"
    /\ UNCHANGED <<udc_run, pos, udc_pos0, cryo_backpressure, cryo_temp, udc_group,
                   udc_done, udc_log, udc_sets>>
    /\ UNCHANGED notUdc

\* A bps.rd of the sequence fails (the device is unreachable): the plan ends
\* there, with what came before it done.
udc_read_fails ==
    /\ udc_pc \in RdStatements
    /\ udc_pc' = "aborted"
    /\ udc_exc' = "ReadFailed"
    /\ UNCHANGED <<udc_run, pos, udc_pos0, cryo_backpressure, cryo_temp, udc_group,
                   udc_done, udc_log, udc_sets>>
    /\ UNCHANGED notUdc

\* RunEngine.abort(): the exception is raised into the plan at the message it
\* is at, which is not done, and the plan ends there.
udc_abort_raised ==
    /\ udc_pc \in RdStatements \cup NullStatements \cup MvStatements \cup DOMAIN AfterWait
    /\ udc_pc' = "aborted"
    /\ udc_exc' = "RequestAbort"
    /\ UNCHANGED <<udc_run, pos, udc_pos0, cryo_backpressure, cryo_temp, udc_group,
                   udc_done, udc_log, udc_sets>>
    /\ UNCHANGED notUdc

\* line 130, a second time: the sequence is run again from where the last run
\* left the axes.
udc_run_again ==
    /\ udc_pc = "done"
    /\ udc_run < MaxRuns
    /\ udc_run' = udc_run + 1
    /\ udc_pc' = "check_backpressure"
    /\ udc_pos0' = pos
    /\ cryo_backpressure' = None
    /\ cryo_temp' = None
    /\ udc_done' = {}
    /\ udc_log' = <<>>
    /\ UNCHANGED <<pos, udc_group, udc_exc, udc_sets>>
    /\ UNCHANGED notUdc

move_to_default_UDC_state ==
    \/ check_backpressure
    \/ check_backpressure_null
    \/ check_temp
    \/ check_temp_null
    \/ make_scin_safe
    \/ make_scin_safe_rd_scin_z
    \/ make_scin_safe_mv55
    \/ make_scin_safe_mv56
    \/ mv_fluo
    \/ mv_chi
    \/ mv_gonio
    \/ put_bs_in
    \/ put_bs_in_rd_bs_y
    \/ put_bs_in_mv62
    \/ put_bs_in_mv63
    \/ mv_mapt_z
    \/ mv_mapt_xy
    \/ mv_cryo
    \/ udc_move_completes
    \/ udc_wait_returns
    \/ udc_move_fails
    \/ udc_read_fails
    \/ udc_abort_raised

UdcNext == move_to_default_UDC_state \/ udc_run_again

(***************************************************************************)
(*                          RESULT RENDEZVOUS                              *)
(* The Zocalo interaction: run_start submits a collection to the analysis  *)
(* service, wait_for_results fetches the result of a collection group.     *)
(* The plans under src/ call them (fast_grid_scan_plan.py lines 85-86 and  *)
(* 111, stepped_grid_scan_plan.py line 274); their bodies are modelled     *)
(* from the specification of the rendezvous.                               *)
(***************************************************************************)

\* ---- bound ----
\* Calls made to the rendezvous in one behaviour.
MaxZocaloCalls == 4

\* ---- inputs ----
GroupIds == {4, 5}
\* The datacollection_ids a deposition returns: two ids, the same id twice
\* (test_zocalo_system.py line 53), or one id.
IdLists == {<<1, 2>>, <<1, 1>>, <<2>>}
FallbackPositions == {<<0, 0, 0>>, <<1, 2, 3>>}
\* What the analysis service answers to a fetch.
ServiceOutcomes == {"diffraction", "no_diffraction", "timeout", "error"}
\* The centre and the bounding boxes the service finds.
ZocaloCentres == {<<5, 6, 7>>}
BboxSizes == {<<1, 1, 1>>, <<3, 1, 1>>, <<1, 3, 3>>, <<2, 1, 1>>}

\* mutant: every call is sent on, whether or not the id was sent before
MutRunStartUntracked(id, sent) ==
    [submitted |-> sent.submitted \cup {id}, sends |-> Append(sent.sends, id)]

\* run_start(id): the collection is submitted to the service unless it
\* already was.  sent = [submitted: the ids sent so far, sends: the messages
\* that went to the service, in order].
run_start(id, sent) ==
    IF id \in sent.submitted THEN sent
    ELSE [submitted |-> sent.submitted \cup {id}, sends |-> Append(sent.sends, id)]

\* fast_grid_scan_plan.py lines 85-86: for id in datacollection_ids: run_start(id)
RECURSIVE RunStartAll(_, _)
RunStartAll(ids, sent) ==
    IF ids = <<>> THEN sent
    ELSE RunStartAll(Tail(ids), run_start(Head(ids), sent))

\* What wait_for_results hands back for an answer of the service: the centre
\* found and its bounding box, or the fallback position and no bounding box.
RendezvousResult(answer, fallback, centre, bbox) ==
    IF answer = "diffraction" THEN [centre |-> centre, bbox |-> Some(bbox)]
    ELSE [centre |-> fallback, bbox |-> None]

\* mutant: a group without diffraction gets no comment
MutCommentOnlyForCrystals(answer) ==
    IF answer = "diffraction" THEN <<"Crystal 1">> ELSE <<>>

\* The comments a rendezvous appends to the group's record.
RendezvousComments(answer) ==
    CASE answer = "diffraction" -> <<"Crystal 1">>
      [] answer = "no_diffraction" -> <<"Found no diffraction.">>
      [] OTHER -> <<>>

\* mutant: the outcome kept for a group is never found again
MutNeverCached(cache, group) == FALSE

\* The group already has its outcome.
Cached(cache, group) == cache[group] # None

ZocIdle ==
    /\ zoc_calls = 0
    /\ zoc_sent = [submitted |-> {}, sends |-> <<>>]
    /\ zoc_requested = <<>>
    /\ zoc_cache = [g \in GroupIds |-> None]
    /\ zoc_answer = [g \in GroupIds |-> "none"]
    /\ zoc_fallback = [g \in GroupIds |-> None]
    /\ zoc_first = [g \in GroupIds |-> None]
    /\ zoc_waits = [g \in GroupIds |-> 0]
    /\ zoc_fetches = [g \in GroupIds |-> 0]
    /\ zoc_comments = [g \in GroupIds |-> <<>>]
    /\ zoc_returned = None

ZocInit == ZocIdle

\* The plan submits the collections of a deposition.
submit_datacollection_ids ==
    \E ids \in IdLists :
        /\ zoc_calls < MaxZocaloCalls
        /\ zoc_calls' = zoc_calls + 1
        /\ zoc_sent' = RunStartAll(ids, zoc_sent)
        /\ zoc_requested' = zoc_requested \o ids
        /\ UNCHANGED <<zoc_cache, zoc_answer, zoc_fallback, zoc_first, zoc_waits,
                       zoc_fetches, zoc_comments, zoc_returned>>
        /\ UNCHANGED notZoc

\* wait_for_results(fallback_xyz) for a collection group
zocalo_wait_for_results ==
    \E group \in GroupIds, fallback \in FallbackPositions, answer \in ServiceOutcomes,
       centre \in ZocaloCentres, bbox \in BboxSizes :
        /\ zoc_calls < MaxZocaloCalls
        /\ zoc_calls' = zoc_calls + 1
        /\ UNCHANGED <<zoc_sent, zoc_requested>>
        /\ UNCHANGED notZoc
        /\ zoc_waits' = [zoc_waits EXCEPT ![group] = @ + 1]
        /\ IF Cached(zoc_cache, group) THEN
              /\ zoc_returned' = Some([group |-> group, result |-> Val(zoc_cache[group])])
              /\ UNCHANGED <<zoc_cache, zoc_answer, zoc_fallback, zoc_first, zoc_fetches,
                             zoc_comments>>
           ELSE
              LET result == RendezvousResult(answer, fallback, centre, bbox) IN
              /\ zoc_fetches' = [zoc_fetches EXCEPT ![group] = @ + 1]
              /\ zoc_answer' =
                    [zoc_answer EXCEPT ![group] = IF @ = "none" THEN answer ELSE @]
              /\ zoc_fallback' =
                    [zoc_fallback EXCEPT ![group] = IF @ = None THEN Some(fallback) ELSE @]
              /\ zoc_first' =
                    [zoc_first EXCEPT ![group] = IF @ = None THEN Some(result) ELSE @]
              /\ zoc_cache' = [zoc_cache EXCEPT ![group] = Some(result)]
              /\ zoc_comments' =
                    [zoc_comments EXCEPT ![group] = @ \o RendezvousComments(answer)]
              /\ zoc_returned' = Some([group |-> group, result |-> result])

ZocNext ==
    \/ submit_datacollection_ids
    \/ zocalo_wait_for_results

(***************************************************************************)
(*                       STEPPED GRID-SCAN PLAN                            *)
(* The plan get_plan returns, run by the RunEngine.  plan_stack holds the  *)
(* bluesky decorators the plan is inside of; when a message raises, the    *)
(* exception leaves them innermost first: stage_decorator unstages,        *)
(* run_decorator closes its run with exit_status "fail" ("abort" for a     *)
(* RequestAbort), subs_decorator unsubscribes token by token and           *)
(* finalize_decorator runs tidy_up_plans, and only then does the exception *)
(* reach the caller.  An action runs the plan from one message to the next.*)
(***************************************************************************)

\* ---- program constants ----
\* wait_for_fgs_valid: timeout=0.5 and SLEEP_PER_CHECK = 0.1, in tenths of a second
FGS_VALID_TIMEOUT_TENTHS == 5
SLEEP_PER_CHECK_TENTHS == 1
\* line 180
times_to_check == FGS_VALID_TIMEOUT_TENTHS \div SLEEP_PER_CHECK_TENTHS

\* ---- inputs ----
\* What the sample motors read at the start, and what the analysis returns:
\* a centre with a bounding box, or the fallback position with no box.
InitialPositions == {<<0, 0, 0>>, <<1, 2, 3>>}
\* The ids the ISPyB deposition returns for the grid scan.
DepositedIds == <<1, 2>>
\* What a message that fails raises into the plan.
Faults == {"FailedStatus", "RequestAbort"}
\* The positions of the aperture device the plan chooses between.
Apertures == {"MEDIUM_APERTURE", "LARGE_APERTURE"}

\* ---- log entries ----
Msg(op, arg) == [op |-> op, arg |-> arg, n |-> 0]
Call(op, n) == [op |-> op, arg |-> "call", n |-> n]
TidyMsg == Msg("set_zebra_shutter_to_manual", "zebra")
\* bps.rd of a signal, and the value it returned
Rd(arg, value) == [op |-> "rd", arg |-> arg, n |-> value]

Count(log, op) == Len(SelectSeq(log, LAMBDA m : m.op = op))

Push(stack, frame) == Append(stack, frame)
Top(stack) == stack[Len(stack)]
Pop(stack) == SubSeq(stack, 1, Len(stack) - 1)

\* The Zocalo handler's reaction to a start document: the scan proper (do_fgs)
\* is submitted to the analysis service, one run_start per collection id.
zocalo_handler_start(subplan_name, subs, ids) ==
    IF "zocalo_handler" \in subs /\ subplan_name = "do_fgs"
    THEN [i \in 1..Len(ids) |-> Call("run_start", ids[i])]
    ELSE <<>>

\* The Zocalo handler's reaction to a stop document: the end of the scan
\* proper (do_fgs) is notified to the analysis service, one run_end per
\* collection id.
zocalo_handler_stop(subplan_name, subs, ids) ==
    IF "zocalo_handler" \in subs /\ subplan_name = "do_fgs"
    THEN [i \in 1..Len(ids) |-> Call("run_end", ids[i])]
    ELSE <<>>

\* bps.open_run with md subplan_name: the start document reaches the subscribers.
OpenRun(name, subs, ids) ==
    <<Msg("open_run", name)>> \o zocalo_handler_start(name, subs, ids)

\* run_decorator's close_run: the exit_status of the run left with this
\* exception in flight.  RequestAbort is a RunEngineControlException and
\* carries its own exit_status.
CloseRunOp(exc) ==
    IF exc = "none" THEN "close_run"
    ELSE IF exc = "RequestAbort" THEN "close_run_abort" ELSE "close_run_fail"

\* bps.close_run: the stop document reaches the subscribers.
CloseRun(name, exc, subs, ids) ==
    <<Msg(CloseRunOp(exc), name)>> \o zocalo_handler_stop(name, subs, ids)

PlanIdle ==
    /\ plan_pc = "idle"
    /\ plan_stack = <<>>
    /\ plan_exc = "none"
    /\ plan_subs = {}
    /\ plan_log = <<>>
    /\ fgs_checks = 0
    /\ datacollection_ids = <<>>
    /\ initial_xyz = None
    /\ xray_centre = None
    /\ bbox_size = None
    /\ zocalo_answer = "none"
    /\ abort_requested = FALSE
    /\ aperture_in_place = "LARGE_APERTURE"
    /\ aperture_before_set = None
    /\ plan_fault = None

\* get_plan has returned the plan; the RunEngine has not started it.
PlanInit ==
    /\ plan_pc = "run_gridscan_and_move_and_tidy"
    /\ plan_stack = <<>>
    /\ plan_exc = "none"
    /\ plan_subs = {}
    /\ plan_log = <<>>
    /\ fgs_checks = 0
    /\ datacollection_ids = <<>>
    /\ initial_xyz = None
    /\ xray_centre = None
    /\ bbox_size = None
    /\ zocalo_answer = "none"
    /\ abort_requested = FALSE
    /\ aperture_in_place \in Apertures
    /\ aperture_before_set = None
    /\ plan_fault = None

\* The plan is at statement `here`, no exception in flight.
At(here) == plan_pc = here /\ plan_exc = "none"

\* The plan yields msgs and goes on to `next`.
Yield(msgs, next) ==
    /\ plan_log' = plan_log \o msgs
    /\ plan_pc' = next

\* The value the message before the last, and the last message, returned.
PlanReadBeforeLast == plan_log[Len(plan_log) - 1].n
PlanLastRead == plan_log[Len(plan_log)].n

\* lines 311-313: finalize_decorator and subs_decorator(ispyb_handler) are
\* entered, and the ISPyB handler is subscribed
run_gridscan_and_move_and_tidy ==
    /\ At("run_gridscan_and_move_and_tidy")
    /\ plan_stack' = <<"finalize", "subs_ispyb">>
    /\ plan_subs' = {"ispyb_handler"}
    /\ Yield(<<Msg("subscribe", "ispyb_handler")>>, "run_gridscan_and_move")
    /\ UNCHANGED <<plan_exc, fgs_checks, datacollection_ids, initial_xyz, xray_centre,
                   bbox_size,
                   zocalo_answer, abort_requested,
                   aperture_in_place, aperture_before_set, plan_fault>>
    /\ UNCHANGED notPlan

\* lines 244-245
run_gridscan_and_move ==
    /\ At("run_gridscan_and_move")
    /\ plan_stack' = Push(plan_stack, "run_gridscan_and_move")
    /\ Yield(OpenRun("run_gridscan_and_move", plan_subs, datacollection_ids), "rd_initial_xyz")
    /\ UNCHANGED <<plan_exc, plan_subs, fgs_checks, datacollection_ids, initial_xyz,
                   xray_centre, bbox_size,
                   zocalo_answer, abort_requested,
                   aperture_in_place, aperture_before_set, plan_fault>>
    /\ UNCHANGED notPlan

\* lines 255-259: x, y and z of the sample motors are read, one message each
rd_initial_xyz ==
    /\ plan_exc = "none"
    /\ \E xyz \in InitialPositions :
          \/ /\ plan_pc = "rd_initial_xyz"
             /\ Yield(<<Rd("sample_motors.x", xyz[1])>>, "rd_initial_xyz_y")
             /\ UNCHANGED initial_xyz
          \/ /\ plan_pc = "rd_initial_xyz_y"
             /\ xyz[1] = PlanLastRead
             /\ Yield(<<Rd("sample_motors.y", xyz[2])>>, "rd_initial_xyz_z")
             /\ UNCHANGED initial_xyz
          \/ /\ plan_pc = "rd_initial_xyz_z"
             /\ xyz[1] = PlanReadBeforeLast
             /\ xyz[2] = PlanLastRead
             /\ Yield(<<Rd("sample_motors.z", xyz[3])>>, "setup_zebra_for_fgs")
             /\ initial_xyz' = Some(xyz)
    /\ UNCHANGED <<plan_stack, plan_exc, plan_subs, fgs_checks, datacollection_ids,
                   xray_centre, bbox_size,
                   zocalo_answer, abort_requested,
                   aperture_in_place, aperture_before_set, plan_fault>>
    /\ UNCHANGED notPlan

\* line 261
setup_zebra_for_fgs ==
    /\ At("setup_zebra_for_fgs")
    /\ Yield(<<Msg("setup_zebra_for_fgs", "zebra")>>, "gridscan_with_subscriptions")
    /\ UNCHANGED <<plan_stack, plan_exc, plan_subs, fgs_checks, datacollection_ids,
                   initial_xyz, xray_centre, bbox_size,
                   zocalo_answer, abort_requested,
                   aperture_in_place, aperture_before_set, plan_fault>>
    /\ UNCHANGED notPlan

\* lines 264-269: subs_decorator([nexus_handler, zocalo_handler]) is entered
\* and subscribes the callbacks, one message each
gridscan_with_subscriptions ==
    /\ plan_exc = "none"
    /\ \/ /\ plan_pc = "gridscan_with_subscriptions"
          /\ plan_stack' = Push(plan_stack, "subs_gridscan")
          /\ plan_subs' = plan_subs \cup {"nexus_handler"}
          /\ Yield(<<Msg("subscribe", "nexus_handler")>>,
                   "gridscan_with_subscriptions_zocalo")
       \/ /\ plan_pc = "gridscan_with_subscriptions_zocalo"
          /\ plan_subs' = plan_subs \cup {"zocalo_handler"}
          /\ Yield(<<Msg("subscribe", "zocalo_handler")>>, "run_gridscan")
          /\ UNCHANGED plan_stack
    /\ UNCHANGED <<plan_exc, fgs_checks, datacollection_ids, initial_xyz, xray_centre,
                   bbox_size,
                   zocalo_answer, abort_requested,
                   aperture_in_place, aperture_before_set, plan_fault>>
    /\ UNCHANGED notPlan

\* lines 198-199
run_gridscan ==
    /\ At("run_gridscan")
    /\ plan_stack' = Push(plan_stack, "run_gridscan")
    /\ Yield(OpenRun("run_gridscan", plan_subs, datacollection_ids), "abs_set_omega")
    /\ UNCHANGED <<plan_exc, plan_subs, fgs_checks, datacollection_ids, initial_xyz,
                   xray_centre, bbox_size,
                   zocalo_answer, abort_requested,
                   aperture_in_place, aperture_before_set, plan_fault>>
    /\ UNCHANGED notPlan

\* line 211
abs_set_omega ==
    /\ At("abs_set_omega")
    /\ Yield(<<Msg("set", "sample_motors.omega")>>, "read_hardware_for_ispyb")
    /\ UNCHANGED <<plan_stack, plan_exc, plan_subs, fgs_checks, datacollection_ids,
                   initial_xyz, xray_centre, bbox_size,
                   zocalo_answer, abort_requested,
                   aperture_in_place, aperture_before_set, plan_fault>>
    /\ UNCHANGED notPlan

\* lines 145-152: the messages of read_hardware_for_ispyb, the statement the
\* plan is at before each, and the statement after the last
ReadHardwareMsgs ==
    <<Msg("create", "ispyb_readings"), Msg("read", "undulator.gap"),
      Msg("read", "synchrotron_mode"), Msg("read", "s4_slit_gaps.xgap"),
      Msg("read", "s4_slit_gaps.ygap"), Msg("save", "ispyb_readings")>>
ReadHardwareAt ==
    <<"read_hardware_for_ispyb", "read_undulator_gap", "read_synchrotron_mode",
      "read_s4_slit_gaps_xgap", "read_s4_slit_gaps_ygap", "save_ispyb_readings",
      "set_stepped_grid_scan_params">>

\* lines 137-152, 217-221: one message of read_hardware_for_ispyb.  The save
\* emits the event of the ISPyB readings: it reaches the ISPyB handler, which
\* makes the deposition and holds its collection ids
read_hardware_for_ispyb ==
    /\ plan_exc = "none"
    /\ \E i \in DOMAIN ReadHardwareMsgs :
          /\ plan_pc = ReadHardwareAt[i]
          /\ IF ReadHardwareMsgs[i].op = "save" THEN
                /\ datacollection_ids' = DepositedIds
                /\ Yield(<<ReadHardwareMsgs[i], Call("store_grid_scan", 0)>>,
                         ReadHardwareAt[i + 1])
             ELSE
                /\ UNCHANGED datacollection_ids
                /\ Yield(<<ReadHardwareMsgs[i]>>, ReadHardwareAt[i + 1])
    /\ UNCHANGED <<plan_stack, plan_exc, plan_subs, fgs_checks, initial_xyz, xray_centre,
                   bbox_size,
                   zocalo_answer, abort_requested,
                   aperture_in_place, aperture_before_set, plan_fault>>
    /\ UNCHANGED notPlan

\* line 226
set_stepped_grid_scan_params ==
    /\ At("set_stepped_grid_scan_params")
    /\ Yield(<<Msg("set_stepped_grid_scan_params", "fgs_motors")>>, "wait_for_fgs_valid")
    /\ UNCHANGED <<plan_stack, plan_exc, plan_subs, fgs_checks, datacollection_ids,
                   initial_xyz, xray_centre, bbox_size,
                   zocalo_answer, abort_requested,
                   aperture_in_place, aperture_before_set, plan_fault>>
    /\ UNCHANGED notPlan

\* mutant: the position counter is not looked at
MutFgsValidIgnoresCounter(scan_invalid, pos_counter) == scan_invalid = 0

\* line 187
FgsValid(scan_invalid, pos_counter) == scan_invalid = 0 /\ pos_counter = 0

\* line 184: what one check of the loop read
CheckMsg(scan_invalid, pos_counter) ==
    [op |-> "check",
     arg |-> IF FgsValid(scan_invalid, pos_counter) THEN "valid" ELSE "invalid",
     n |-> 2 * scan_invalid + pos_counter]

\* wait_for_fgs_valid, lines 181-188: one check of the loop reads
\* scan_invalid, then position_counter, and tests the two
wait_for_fgs_valid ==
    /\ plan_exc = "none"
    /\ \/ /\ plan_pc = "wait_for_fgs_valid"
          /\ fgs_checks < times_to_check
          /\ \E scan_invalid \in {0, 1} :
                Yield(<<Rd("scan_invalid", scan_invalid)>>,
                      "wait_for_fgs_valid_rd_position_counter")
       \/ /\ plan_pc = "wait_for_fgs_valid_rd_position_counter"
          /\ \E pos_counter \in {0, 1} :
                Yield(<<Rd("position_counter", pos_counter),
                        CheckMsg(PlanLastRead, pos_counter)>>,
                      IF FgsValid(PlanLastRead, pos_counter) THEN "do_fgs"
                      ELSE "wait_for_fgs_valid_sleep")
    /\ UNCHANGED <<plan_stack, plan_exc, plan_subs, fgs_checks, datacollection_ids,
                   initial_xyz, xray_centre, bbox_size,
                   zocalo_answer, abort_requested,
                   aperture_in_place, aperture_before_set, plan_fault>>
    /\ UNCHANGED notPlan

\* wait_for_fgs_valid, line 189 and the loop's next iteration
wait_for_fgs_valid_sleep ==
    /\ At("wait_for_fgs_valid_sleep")
    /\ fgs_checks' = fgs_checks + 1
    /\ Yield(<<Msg("sleep", "SLEEP_PER_CHECK")>>, "wait_for_fgs_valid")
    /\ UNCHANGED <<plan_stack, plan_exc, plan_subs, datacollection_ids, initial_xyz,
                   xray_centre, bbox_size,
                   zocalo_answer, abort_requested,
                   aperture_in_place, aperture_before_set, plan_fault>>
    /\ UNCHANGED notPlan

\* The loop runs out and the plan goes on to the scan as if it were valid.
MutWaitForFgsValidReturns ==
    /\ At("wait_for_fgs_valid")
    /\ fgs_checks >= times_to_check
    /\ plan_pc' = "do_fgs"
    /\ UNCHANGED <<plan_exc, plan_stack, plan_subs, plan_log, fgs_checks,
                   datacollection_ids, initial_xyz, xray_centre, bbox_size,
                   zocalo_answer, abort_requested,
                   aperture_in_place, aperture_before_set, plan_fault>>
    /\ UNCHANGED notPlan

\* wait_for_fgs_valid, line 190: the loop has run out
wait_for_fgs_valid_raise ==
    /\ At("wait_for_fgs_valid")
    /\ fgs_checks >= times_to_check
    /\ plan_exc' = "WarningException"
    /\ UNCHANGED <<plan_pc, plan_stack, plan_subs, plan_log, fgs_checks,
                   datacollection_ids, initial_xyz, xray_centre, bbox_size,
                   zocalo_answer, abort_requested, aperture_in_place,
                   aperture_before_set>>
    /\ plan_fault' = Some([at |-> plan_pc, exc |-> "WarningException"])
    /\ UNCHANGED notPlan

\* lines 229-231: run_decorator of do_fgs opens its run; the body of the run
\* is the stage_decorator's wrapper, entered without a message of its own
do_fgs ==
    /\ At("do_fgs")
    /\ plan_stack' = Push(Push(plan_stack, "do_fgs"), "stage_eiger")
    /\ Yield(OpenRun("do_fgs", plan_subs, datacollection_ids), "do_fgs_stage")
    /\ UNCHANGED <<plan_exc, plan_subs, fgs_checks, datacollection_ids, initial_xyz,
                   xray_centre, bbox_size,
                   zocalo_answer, abort_requested,
                   aperture_in_place, aperture_before_set, plan_fault>>
    /\ UNCHANGED notPlan

\* line 231: stage_decorator stages the detector, inside the try whose finally
\* unstages it
do_fgs_stage ==
    /\ At("do_fgs_stage")
    /\ Yield(<<Msg("stage", "eiger")>>, "do_fgs_wait")
    /\ UNCHANGED <<plan_stack, plan_exc, plan_subs, fgs_checks, datacollection_ids, initial_xyz,
                   xray_centre, bbox_size,
                   zocalo_answer, abort_requested,
                   aperture_in_place, aperture_before_set, plan_fault>>
    /\ UNCHANGED notPlan

\* line 233
do_fgs_wait ==
    /\ At("do_fgs_wait")
    /\ Yield(<<Msg("wait", "")>>, "do_fgs_kickoff")
    /\ UNCHANGED <<plan_stack, plan_exc, plan_subs, fgs_checks, datacollection_ids,
                   initial_xyz, xray_centre, bbox_size,
                   zocalo_answer, abort_requested,
                   aperture_in_place, aperture_before_set, plan_fault>>
    /\ UNCHANGED notPlan

\* line 234
do_fgs_kickoff ==
    /\ At("do_fgs_kickoff")
    /\ Yield(<<Msg("kickoff", "fgs_motors")>>, "do_fgs_complete")
    /\ UNCHANGED <<plan_stack, plan_exc, plan_subs, fgs_checks, datacollection_ids,
                   initial_xyz, xray_centre, bbox_size,
                   zocalo_answer, abort_requested,
                   aperture_in_place, aperture_before_set, plan_fault>>
    /\ UNCHANGED notPlan

\* line 235: bps.complete(fgs_motors, wait=True) is the complete message and
\* the wait for it
do_fgs_complete ==
    /\ plan_exc = "none"
    /\ \/ /\ plan_pc = "do_fgs_complete"
          /\ Yield(<<Msg("complete", "fgs_motors")>>, "do_fgs_complete_wait")
       \/ /\ plan_pc = "do_fgs_complete_wait"
          /\ Yield(<<Msg("wait", "fgs_motors")>>, "leave")
    /\ UNCHANGED <<plan_stack, plan_exc, plan_subs, fgs_checks, datacollection_ids,
                   initial_xyz, xray_centre, bbox_size,
                   zocalo_answer, abort_requested,
                   aperture_in_place, aperture_before_set, plan_fault>>
    /\ UNCHANGED notPlan

\* line 241
abs_set_z_steps ==
    /\ At("abs_set_z_steps")
    /\ Yield(<<Msg("set", "fgs_motors.z_steps")>>, "leave")
    /\ UNCHANGED <<plan_stack, plan_exc, plan_subs, fgs_checks, datacollection_ids,
                   initial_xyz, xray_centre, bbox_size,
                   zocalo_answer, abort_requested,
                   aperture_in_place, aperture_before_set, plan_fault>>
    /\ UNCHANGED notPlan

\* line 274: the plan calls zocalo_handler.wait_for_results(initial_xyz).  The
\* call is an ordinary function call inside the generator, not a message
\* yielded to the RunEngine: nothing can be raised into the plan until the
\* call has returned and the plan has yielded its next message.
wait_for_results ==
    /\ At("wait_for_results")
    /\ Yield(<<Call("wait_for_results", 0)>>, "wait_for_results_blocked")
    /\ UNCHANGED <<plan_stack, plan_exc, plan_subs, fgs_checks, datacollection_ids,
                   initial_xyz, xray_centre, bbox_size, zocalo_answer, abort_requested,
                   aperture_in_place, aperture_before_set, plan_fault>>
    /\ UNCHANGED notPlan

\* RunEngine.abort() from another thread while the plan is in the call.
request_abort ==
    /\ At("wait_for_results_blocked")
    /\ ~abort_requested
    /\ abort_requested' = TRUE
    /\ UNCHANGED <<plan_pc, plan_stack, plan_exc, plan_subs, plan_log, fgs_checks,
                   datacollection_ids, initial_xyz, xray_centre, bbox_size,
                   zocalo_answer,
                   aperture_in_place, aperture_before_set, plan_fault>>
    /\ UNCHANGED notPlan

\* line 274: the call returns once the service has answered or timed out:
\* the centre found and its bounding box, or the fallback position and no
\* bounding box (lines 276-288 choose the next statement)
wait_for_results_returns ==
    /\ At("wait_for_results_blocked")
    /\ \E answer \in ServiceOutcomes, c \in ZocaloCentres, b \in BboxSizes :
          LET result == RendezvousResult(answer, Val(initial_xyz), c, b) IN
          /\ xray_centre' = Some(result.centre)
          /\ bbox_size' = result.bbox
          /\ zocalo_answer' = answer
          /\ plan_pc' = IF result.bbox # None THEN "set_aperture_for_bbox_size"
                        ELSE "move_xyz"
    /\ UNCHANGED <<plan_stack, plan_exc, plan_subs, plan_log, fgs_checks,
                   datacollection_ids, initial_xyz, abort_requested,
                   aperture_in_place, aperture_before_set, plan_fault>>
    /\ UNCHANGED notPlan

\* mutant: the threshold is met by a box of 2 as well
MutSelectedApertureUpToTwo(bbox) ==
    IF bbox[1] <= 2 THEN "MEDIUM_APERTURE" ELSE "LARGE_APERTURE"

\* lines 117-122: the aperture chosen for a bounding box
SelectedAperture(bbox) == IF bbox[1] < 2 THEN "MEDIUM_APERTURE" ELSE "LARGE_APERTURE"

\* lines 127-134: run_decorator of set_aperture opens its run
set_aperture_for_bbox_size ==
    /\ At("set_aperture_for_bbox_size")
    /\ plan_stack' = Push(plan_stack, "change_aperture")
    /\ Yield(OpenRun("change_aperture", plan_subs, datacollection_ids), "set_aperture")
    /\ UNCHANGED <<plan_exc, plan_subs, fgs_checks, datacollection_ids, initial_xyz,
                   xray_centre, bbox_size,
                   zocalo_answer, abort_requested,
                   aperture_in_place, aperture_before_set, plan_fault>>
    /\ UNCHANGED notPlan

\* mutant: the aperture is set only when the one selected is not in place
MutSetApertureOnlyIfDifferent ==
    /\ At("set_aperture")
    /\ IF SelectedAperture(Val(bbox_size)) = aperture_in_place THEN
          /\ Yield(<<>>, "leave")
          /\ UNCHANGED <<aperture_in_place, aperture_before_set>>
       ELSE
          /\ Yield(<<Msg("set_aperture", SelectedAperture(Val(bbox_size)))>>, "leave")
          /\ aperture_before_set' = Some(aperture_in_place)
          /\ aperture_in_place' = SelectedAperture(Val(bbox_size))
    /\ UNCHANGED <<plan_stack, plan_exc, plan_subs, fgs_checks, datacollection_ids,
                   initial_xyz, xray_centre, bbox_size, zocalo_answer, abort_requested,
                   plan_fault>>
    /\ UNCHANGED notPlan

\* line 132: bps.abs_set(aperture_device, aperture_size_positions)
set_aperture ==
    /\ At("set_aperture")
    /\ Yield(<<Msg("set_aperture", SelectedAperture(Val(bbox_size)))>>, "leave")
    /\ UNCHANGED <<plan_stack, plan_exc, plan_subs, fgs_checks, datacollection_ids,
                   initial_xyz, xray_centre, bbox_size, zocalo_answer, abort_requested,
                   plan_fault>>
    /\ aperture_before_set' = Some(aperture_in_place)
    /\ aperture_in_place' = SelectedAperture(Val(bbox_size))
    /\ UNCHANGED notPlan

\* lines 155-156, 285-288: run_decorator of move_xyz opens its run
move_xyz ==
    /\ At("move_xyz")
    /\ plan_stack' = Push(plan_stack, "move_xyz")
    /\ Yield(OpenRun("move_xyz", plan_subs, datacollection_ids), "move_xyz_mv")
    /\ UNCHANGED <<plan_exc, plan_subs, fgs_checks, datacollection_ids, initial_xyz,
                   xray_centre, bbox_size,
                   zocalo_answer, abort_requested,
                   aperture_in_place, aperture_before_set, plan_fault>>
    /\ UNCHANGED notPlan

\* The position on a message: x, y and z as one number.
PosCode(xyz) == xyz[1] * 100 + xyz[2] * 10 + xyz[3]

\* lines 167-174: the axes bps.mv sets, in order, and the statement the plan
\* is at before each set, before the wait for the three, and after it
SampleAxes == <<"sample_motors.x", "sample_motors.y", "sample_motors.z">>
MoveXyzAt ==
    <<"move_xyz_mv", "move_xyz_mv_y", "move_xyz_mv_z", "move_xyz_mv_wait", "leave">>

\* One message of the bps.mv to this position.
MoveXyzMsg(k, position) ==
    IF k <= Len(SampleAxes)
    THEN [op |-> "set", arg |-> SampleAxes[k], n |-> position[k]]
    ELSE Msg("wait", "sample_motors")

\* mutant: the sample is moved only when a bounding box came back
MutMoveXyzOnlyWithBbox ==
    /\ plan_exc = "none"
    /\ \E k \in 1..(Len(SampleAxes) + 1) :
          /\ plan_pc = MoveXyzAt[k]
          /\ IF bbox_size = None THEN Yield(<<>>, "leave")
             ELSE Yield(<<MoveXyzMsg(k, Val(xray_centre))>>, MoveXyzAt[k + 1])
    /\ UNCHANGED <<plan_stack, plan_exc, plan_subs, fgs_checks, datacollection_ids,
                   initial_xyz, xray_centre, bbox_size, zocalo_answer, abort_requested,
                   aperture_in_place, aperture_before_set, plan_fault>>
    /\ UNCHANGED notPlan

\* lines 167-174: one message of bps.mv(x, ..., y, ..., z, ...): a set of each
\* axis, then the wait for the three
move_xyz_mv ==
    /\ plan_exc = "none"
    /\ \E k \in 1..(Len(SampleAxes) + 1) :
          /\ plan_pc = MoveXyzAt[k]
          /\ Yield(<<MoveXyzMsg(k, Val(xray_centre))>>, MoveXyzAt[k + 1])
    /\ UNCHANGED <<plan_stack, plan_exc, plan_subs, fgs_checks, datacollection_ids,
                   initial_xyz, xray_centre, bbox_size,
                   zocalo_answer, abort_requested,
                   aperture_in_place, aperture_before_set, plan_fault>>
    /\ UNCHANGED notPlan

\* mutant: the plan ends after the aperture change, the sample is not moved
MutAfterLeaveApertureEndsPlan(frame) ==
    CASE frame = "stage_eiger" -> "leave"
      [] frame = "do_fgs" -> "abs_set_z_steps"
      [] frame = "run_gridscan" -> "leave"
      [] frame = "subs_gridscan" -> "wait_for_results"
      [] frame = "change_aperture" -> "leave"
      [] frame = "move_xyz" -> "leave"
      [] frame = "run_gridscan_and_move" -> "leave"
      [] frame = "subs_ispyb" -> "leave"
      [] frame = "finalize" -> "returned"

\* The statement that follows the normal exit of each decorator.
AfterLeave(frame) ==
    CASE frame = "stage_eiger" -> "leave"
      [] frame = "do_fgs" -> "abs_set_z_steps"
      [] frame = "run_gridscan" -> "leave"
      [] frame = "subs_gridscan" -> "wait_for_results"
      [] frame = "change_aperture" -> "move_xyz"
      [] frame = "move_xyz" -> "leave"
      [] frame = "run_gridscan_and_move" -> "leave"
      [] frame = "subs_ispyb" -> "leave"
      [] frame = "finalize" -> "returned"

RunFrames == {"run_gridscan_and_move", "run_gridscan", "do_fgs", "change_aperture",
              "move_xyz"}
SubsFrames == {"subs_ispyb", "subs_gridscan"}
SubsOf(frame) ==
    IF frame = "subs_ispyb" THEN <<"ispyb_handler">>
    ELSE <<"nexus_handler", "zocalo_handler">>

\* The tokens the decorator holds: those of its callbacks that are subscribed.
TokensOf(frame) == SelectSeq(SubsOf(frame), LAMBDA callback : callback \in plan_subs)

\* The plan is leaving its innermost decorator: normally (its body has ended)
\* or with an exception in flight.
Leaving == plan_stack # <<>> /\ (plan_pc = "leave" \/ plan_exc # "none")

\* mutant: an exception reaches the caller as soon as one frame has been left
MutLeaveToCallerAtOnce(frame) ==
    IF plan_exc = "none" THEN AfterLeave(frame) ELSE "raised"

\* Where the plan goes on once the frame is left.
LeaveTo(frame) ==
    IF plan_exc = "none" THEN AfterLeave(frame)
    ELSE IF Len(plan_stack) = 1 THEN "raised" ELSE plan_pc

\* What unstaging the detector can do: it waits for the frames of the scan,
\* disarms the detector, and fails when the frames never came.
UnstageOutcomes == {"ok", "UnstageFailed"}

\* mutant: the detector is unstaged only when the scan ended normally
MutLeaveStageOnlyOnSuccess ==
    /\ Leaving
    /\ Top(plan_stack) = "stage_eiger"
    /\ plan_stack' = Pop(plan_stack)
    /\ Yield(IF plan_exc = "none" THEN <<Msg("unstage", "eiger")>> ELSE <<>>,
             LeaveTo(Top(plan_stack)))
    /\ UNCHANGED <<plan_exc, plan_subs, fgs_checks, datacollection_ids, initial_xyz,
                   xray_centre, bbox_size, zocalo_answer, abort_requested,
                   aperture_in_place, aperture_before_set, plan_fault>>
    /\ UNCHANGED notPlan

\* stage_decorator (line 231): the detector is unstaged on every exit.  The
\* unstage runs in the finally of the wrapper: an exception it raises replaces
\* the one in flight.
leave_stage ==
    /\ Leaving
    /\ Top(plan_stack) = "stage_eiger"
    /\ plan_stack' = Pop(plan_stack)
    /\ \E outcome \in UnstageOutcomes :
          IF outcome = "ok" THEN
              /\ Yield(<<Msg("unstage", "eiger")>>, LeaveTo(Top(plan_stack)))
              /\ UNCHANGED <<plan_exc, plan_fault>>
          ELSE
              /\ Yield(<<Msg("unstage", "eiger")>>, plan_pc)
              /\ plan_exc' = outcome
              /\ plan_fault' = Append(plan_fault, [at |-> "unstage", exc |-> outcome])
    /\ UNCHANGED <<plan_subs, fgs_checks, datacollection_ids, initial_xyz, xray_centre,
                   bbox_size, zocalo_answer, abort_requested, aperture_in_place,
                   aperture_before_set>>
    /\ UNCHANGED notPlan

\* run_decorator (lines 128, 156, 199, 230, 245): the run is closed on every
\* exit, with the exit_status of the exception in flight
leave_run ==
    /\ Leaving
    /\ Top(plan_stack) \in RunFrames
    /\ plan_stack' = Pop(plan_stack)
    /\ Yield(CloseRun(Top(plan_stack), plan_exc, plan_subs, datacollection_ids),
             LeaveTo(Top(plan_stack)))
    /\ UNCHANGED <<plan_exc, plan_subs, fgs_checks, datacollection_ids, initial_xyz,
                   xray_centre, bbox_size,
                   zocalo_answer, abort_requested,
                   aperture_in_place, aperture_before_set, plan_fault>>
    /\ UNCHANGED notPlan

\* What an unsubscribe message can do: the RunEngine can be aborted there.
UnsubscribeOutcomes == {"ok", "RequestAbort"}

\* subs_decorator (lines 264, 312): on every exit the tokens the decorator
\* holds are unsubscribed, one message each, in the finally of the wrapper;
\* an exception raised at one of them replaces the one in flight and leaves
\* the rest subscribed.  A decorator that holds no token is left without a
\* message.
leave_subs ==
    /\ Leaving
    /\ Top(plan_stack) \in SubsFrames
    /\ LET tokens == TokensOf(Top(plan_stack)) IN
       IF tokens = <<>> THEN
           /\ plan_stack' = Pop(plan_stack)
           /\ plan_pc' = LeaveTo(Top(plan_stack))
           /\ UNCHANGED <<plan_log, plan_subs, plan_exc, plan_fault>>
       ELSE
           \E outcome \in UnsubscribeOutcomes :
              IF outcome = "ok" THEN
                  /\ plan_subs' = plan_subs \ {tokens[1]}
                  /\ IF Len(tokens) = 1
                     THEN /\ plan_stack' = Pop(plan_stack)
                          /\ Yield(<<Msg("unsubscribe", tokens[1])>>,
                                   LeaveTo(Top(plan_stack)))
                     ELSE /\ UNCHANGED plan_stack
                          /\ Yield(<<Msg("unsubscribe", tokens[1])>>, plan_pc)
                  /\ UNCHANGED <<plan_exc, plan_fault>>
              ELSE
                  /\ plan_stack' = Pop(plan_stack)
                  /\ plan_exc' = outcome
                  /\ plan_fault' =
                        Append(plan_fault, [at |-> "unsubscribe", exc |-> outcome])
                  /\ UNCHANGED <<plan_pc, plan_log, plan_subs>>
    /\ UNCHANGED <<fgs_checks, datacollection_ids, initial_xyz, xray_centre,
                   bbox_size,
                   zocalo_answer, abort_requested,
                   aperture_in_place, aperture_before_set>>
    /\ UNCHANGED notPlan

\* A tidy-up that runs at the end of the plan's body only: an exception in
\* flight leaves the plan without it.
MutTidyOnlyAfterSuccess ==
    /\ Leaving
    /\ Top(plan_stack) = "finalize"
    /\ plan_stack' = Pop(plan_stack)
    /\ Yield(IF plan_exc = "none" THEN <<TidyMsg>> ELSE <<>>, LeaveTo(Top(plan_stack)))
    /\ UNCHANGED <<plan_exc, plan_subs, fgs_checks, datacollection_ids, initial_xyz,
                   xray_centre, bbox_size,
                   zocalo_answer, abort_requested,
                   aperture_in_place, aperture_before_set, plan_fault>>
    /\ UNCHANGED notPlan

\* finalize_decorator (line 311) and tidy_up_plans (lines 193-195): the tidy-up
\* runs on every exit; then the plan returns, or the exception reaches the caller
tidy_up_plans ==
    /\ Leaving
    /\ Top(plan_stack) = "finalize"
    /\ plan_stack' = Pop(plan_stack)
    /\ Yield(<<TidyMsg>>, LeaveTo(Top(plan_stack)))
    /\ UNCHANGED <<plan_exc, plan_subs, fgs_checks, datacollection_ids, initial_xyz,
                   xray_centre, bbox_size,
                   zocalo_answer, abort_requested,
                   aperture_in_place, aperture_before_set, plan_fault>>
    /\ UNCHANGED notPlan

\* The statements of run_gridscan_and_move that yield a message to the
\* RunEngine.
FaultPoints ==
    {"run_gridscan_and_move_and_tidy", "run_gridscan_and_move", "rd_initial_xyz",
     "rd_initial_xyz_y", "rd_initial_xyz_z", "setup_zebra_for_fgs",
     "gridscan_with_subscriptions", "gridscan_with_subscriptions_zocalo",
     "run_gridscan", "abs_set_omega", "read_hardware_for_ispyb", "read_undulator_gap",
     "read_synchrotron_mode", "read_s4_slit_gaps_xgap", "read_s4_slit_gaps_ygap",
     "save_ispyb_readings", "set_stepped_grid_scan_params", "wait_for_fgs_valid",
     "wait_for_fgs_valid_rd_position_counter", "wait_for_fgs_valid_sleep", "do_fgs",
     "do_fgs_stage", "do_fgs_wait", "do_fgs_kickoff", "do_fgs_complete",
     "do_fgs_complete_wait", "move_xyz_mv_y", "move_xyz_mv_z", "move_xyz_mv_wait",
     "abs_set_z_steps", "set_aperture_for_bbox_size", "set_aperture", "move_xyz",
     "move_xyz_mv"}

\* The decorators a statement enters before it yields its message: the
\* first subscribe of a subs_decorator is yielded inside its finally, and
\* that of the ISPyB handler inside the finalize_decorator's as well.
EnteredAt(statement) ==
    IF statement = "run_gridscan_and_move_and_tidy" THEN <<"finalize", "subs_ispyb">>
    ELSE IF statement = "gridscan_with_subscriptions" THEN <<"subs_gridscan">>
    ELSE <<>>

\* The message the plan is about to yield (or the call it is about to make)
\* fails, or the RunEngine is aborted there: the exception is raised into the
\* plan at that statement.
plan_message_raises ==
    /\ plan_exc = "none"
    /\ plan_pc \in FaultPoints
    /\ plan_pc = "wait_for_fgs_valid" => fgs_checks < times_to_check
    /\ \E e \in Faults : plan_exc' = e
    /\ plan_stack' = plan_stack \o EnteredAt(plan_pc)
    /\ UNCHANGED <<plan_pc, plan_subs, plan_log, fgs_checks,
                   datacollection_ids, initial_xyz, xray_centre, bbox_size,
                   zocalo_answer, abort_requested, aperture_in_place,
                   aperture_before_set>>
    /\ plan_fault' = Some([at |-> plan_pc, exc |-> plan_exc'])
    /\ UNCHANGED notPlan

\* An abort requested during the rendezvous reaches the plan at a message it
\* yields after the call has returned: RequestAbort is raised into the plan
\* there.
abort_raised_at_message ==
    /\ abort_requested
    /\ plan_exc = "none"
    /\ plan_pc \in FaultPoints
    /\ plan_exc' = "RequestAbort"
    /\ UNCHANGED <<plan_pc, plan_stack, plan_subs, plan_log, fgs_checks,
                   datacollection_ids, initial_xyz, xray_centre, bbox_size,
                   zocalo_answer, abort_requested, aperture_in_place,
                   aperture_before_set>>
    /\ plan_fault' = Some([at |-> plan_pc, exc |-> "RequestAbort"])
    /\ UNCHANGED notPlan

PlanNext ==
    \/ run_gridscan_and_move_and_tidy
    \/ run_gridscan_and_move
    \/ rd_initial_xyz
    \/ setup_zebra_for_fgs
    \/ gridscan_with_subscriptions
    \/ run_gridscan
    \/ abs_set_omega
    \/ read_hardware_for_ispyb
    \/ set_stepped_grid_scan_params
    \/ wait_for_fgs_valid
    \/ wait_for_fgs_valid_sleep
    \/ wait_for_fgs_valid_raise
    \/ do_fgs
    \/ do_fgs_stage
    \/ do_fgs_wait
    \/ do_fgs_kickoff
    \/ do_fgs_complete
    \/ abs_set_z_steps
    \/ wait_for_results
    \/ request_abort
    \/ wait_for_results_returns
    \/ abort_raised_at_message
    \/ set_aperture_for_bbox_size
    \/ set_aperture
    \/ move_xyz
    \/ move_xyz_mv
    \/ leave_stage
    \/ leave_run
    \/ leave_subs
    \/ tidy_up_plans
    \/ plan_message_raises

(***************************************************************************)
(*                 FLYSCAN XRAY-CENTRE: CENTRE AND COMMIT                  *)
(* run_gridscan_and_move of the flyscan xray-centre plan, as its unit      *)
(* tests drive it (test_flyscan_xray_centre_plan.py lines 373-537): the    *)
(* grid scan, the rendezvous, the move of the sample to the centre and the *)
(* commit of the smargon's stub offsets.  The tests patch run_gridscan and *)
(* move_x_y_z and set what wait_for_results returns.                       *)
(***************************************************************************)

\* What the patched steps can raise.
FlyFaults == {"MoveException"}

FlyIdle ==
    /\ fly_pc = "idle"
    /\ fly_set_stub_offsets = FALSE
    /\ fly_exc = "none"
    /\ fly_initial_xyz = None
    /\ fly_centre = None
    /\ fly_bbox = None
    /\ fly_log = <<>>
    /\ fly_centred_at = None
    /\ fly_stub_offsets_proc = 0

\* The plan is handed to the RunEngine; experiment_params.set_stub_offsets is
\* as the parameters have it (lines 480-491 switch it off).
FlyInit ==
    /\ fly_pc = "rd_initial_xyz"
    /\ fly_set_stub_offsets \in BOOLEAN
    /\ fly_exc = "none"
    /\ fly_initial_xyz = None
    /\ fly_centre = None
    /\ fly_bbox = None
    /\ fly_log = <<>>
    /\ fly_centred_at = None
    /\ fly_stub_offsets_proc = 0

FlyAt(here) == fly_pc = here /\ fly_exc = "none"

\* the sample position is read before the scan: the fallback of the rendezvous
flyscan_rd_initial_xyz ==
    /\ FlyAt("rd_initial_xyz")
    /\ \E xyz \in InitialPositions : fly_initial_xyz' = Some(xyz)
    /\ fly_pc' = "run_gridscan"
    /\ UNCHANGED <<fly_set_stub_offsets, fly_exc, fly_centre, fly_bbox, fly_log,
                   fly_centred_at, fly_stub_offsets_proc>>
    /\ UNCHANGED notFly

\* run_gridscan (patched, lines 373-375): the scan runs, or raises
flyscan_run_gridscan ==
    /\ FlyAt("run_gridscan")
    /\ \E outcome \in {"ok", "FailedStatus"} :
          IF outcome = "ok" THEN
              /\ fly_log' = Append(fly_log, Call("run_gridscan", 0))
              /\ fly_pc' = "wait_for_results"
              /\ UNCHANGED fly_exc
          ELSE
              /\ fly_exc' = outcome
              /\ fly_pc' = "raised"
              /\ UNCHANGED fly_log
    /\ UNCHANGED <<fly_set_stub_offsets, fly_initial_xyz, fly_centre, fly_bbox,
                   fly_centred_at, fly_stub_offsets_proc>>
    /\ UNCHANGED notFly

\* zocalo_handler.wait_for_results (lines 416-421): a centre with a bounding
\* box, or the fallback with None
flyscan_wait_for_results ==
    /\ FlyAt("wait_for_results")
    /\ \E answer \in ServiceOutcomes, c \in ZocaloCentres, b \in BboxSizes :
          LET result == RendezvousResult(answer, Val(fly_initial_xyz), c, b) IN
          /\ fly_centre' = Some(result.centre)
          /\ fly_bbox' = result.bbox
          /\ fly_pc' = IF result.bbox # None THEN "set_aperture" ELSE "move_x_y_z"
    /\ fly_log' = Append(fly_log, Call("wait_for_results", 0))
    /\ UNCHANGED <<fly_set_stub_offsets, fly_exc, fly_initial_xyz, fly_centred_at,
                   fly_stub_offsets_proc>>
    /\ UNCHANGED notFly

\* the aperture for the bounding box (lines 253-276)
flyscan_set_aperture ==
    /\ FlyAt("set_aperture")
    /\ fly_log' = Append(fly_log, Msg("set_aperture", SelectedAperture(Val(fly_bbox))))
    /\ fly_pc' = "move_x_y_z"
    /\ UNCHANGED <<fly_set_stub_offsets, fly_exc, fly_initial_xyz, fly_centre, fly_bbox,
                   fly_centred_at, fly_stub_offsets_proc>>
    /\ UNCHANGED notFly

\* move_x_y_z (patched, lines 376-378, 455): the sample is moved to the
\* centre, or the move raises
flyscan_move_x_y_z ==
    /\ FlyAt("move_x_y_z")
    /\ \E outcome \in {"ok"} \cup FlyFaults :
          IF outcome = "ok" THEN
              /\ fly_log' = Append(fly_log, [op |-> "mv", arg |-> "sample_motors",
                                            n |-> PosCode(Val(fly_centre))])
              /\ fly_centred_at' = fly_centre
              /\ fly_pc' = "set_stub_offsets"
              /\ UNCHANGED fly_exc
          ELSE
              /\ fly_exc' = outcome
              /\ fly_pc' = "raised"
              /\ UNCHANGED <<fly_log, fly_centred_at>>
    /\ UNCHANGED <<fly_set_stub_offsets, fly_initial_xyz, fly_centre, fly_bbox,
                   fly_stub_offsets_proc>>
    /\ UNCHANGED notFly

\* mutant: the offsets are committed whatever the parameters say
MutStubOffsetsAlways(enabled) == TRUE

\* The commit is made when experiment_params.set_stub_offsets is on.
CommitsStubOffsets(enabled) == enabled

\* smargon.stub_offsets.center_at_current_position (lines 430-433, 534-537)
flyscan_set_stub_offsets ==
    /\ FlyAt("set_stub_offsets")
    /\ IF CommitsStubOffsets(fly_set_stub_offsets) THEN
          /\ fly_stub_offsets_proc' = 1
          /\ fly_log' = Append(fly_log, Msg("set", "stub_offsets.center_at_current_position"))
       ELSE UNCHANGED <<fly_stub_offsets_proc, fly_log>>
    /\ fly_pc' = "returned"
    /\ UNCHANGED <<fly_set_stub_offsets, fly_exc, fly_initial_xyz, fly_centre, fly_bbox,
                   fly_centred_at>>
    /\ UNCHANGED notFly

FlyNext ==
    \/ flyscan_rd_initial_xyz
    \/ flyscan_run_gridscan
    \/ flyscan_wait_for_results
    \/ flyscan_set_aperture
    \/ flyscan_move_x_y_z
    \/ flyscan_set_stub_offsets

(***************************************************************************)
(*                          THE PLAN RUNNER                                *)
(* The runner behind the start, stop and status endpoints, with its worker *)
(* thread and its stopping thread, driven as the system tests drive it     *)
(* (test_main_system.py): the run engine is the tests' MockRunEngine       *)
(* (lines 33-52).  Where the tests do not say what the runner does, who    *)
(* reports the end of a plan that was stopped, the model takes every       *)
(* choice.                                                                 *)
(***************************************************************************)

\* ---- bound ----
\* Requests sent to the endpoints in one behaviour.
MaxRequests == 4

\* ---- inputs ----
\* The error the tests plant in the run engine (lines 221-222, 233-235), and
\* the empty string: self.error is Optional[str].
ErrorMessages == {"D'Oh", ""}

\* mutant: a failure is reported without the exception's message
MutErrorStatusWithoutMessage(exception) == [status |-> "FAILED", message |-> <<>>]

\* raise Exception(self.error) (lines 42, 48)
Exception(error) == [type |-> "Exception", args |-> <<error>>]

\* repr(exception): the type's name and the arguments, 'Exception("D\'Oh")'
\* (lines 225, 240)
repr(exception) == <<exception.type>> \o exception.args

\* Status.FAILED with the message of an exception (lines 224-225, 239-240).
ErrorStatusAndMessage(exception) == [status |-> "FAILED", message |-> repr(exception)]
StatusAndMessage(status) == [status |-> status, message |-> <<>>]

RunIdle ==
    /\ run_status = StatusAndMessage("IDLE")
    /\ run_queue = 0
    /\ run_requests = <<>>
    /\ run_worker = "stopped"
    /\ run_stopper = "none"
    /\ run_ended = None
    /\ run_stopped = FALSE
    /\ run_started = 0
    /\ RE_takes_time = TRUE
    /\ aborting_takes_time = FALSE
    /\ RE_error = None

\* test_env (lines 100-114): a fresh MockRunEngine, the worker started.
RunInit ==
    /\ run_status = StatusAndMessage("IDLE")
    /\ run_queue = 0
    /\ run_requests = <<>>
    /\ run_worker = "waiting"
    /\ run_stopper = "none"
    /\ run_ended = None
    /\ run_stopped = FALSE
    /\ run_started = 0
    /\ RE_takes_time = TRUE
    /\ aborting_takes_time = FALSE
    /\ RE_error = None

Request(request, response) == [request |-> request, response |-> response]

\* The worker is inside the run engine's call; the stopping thread is inside
\* RE.abort().
InRE == run_worker \in {"while", "sleep"}
InAbort == run_stopper \in {"while", "sleep"}

\* mutant: a start is accepted whatever the runner is doing
MutStartNeverRefused(status) == FALSE

\* A start is refused while a plan runs or is being aborted.
StartRefused(status) == status \in {"BUSY", "ABORTING"}

\* PUT <plan>/start (lines 144-146, 184-187)
put_start ==
    /\ Len(run_requests) < MaxRequests
    /\ run_worker # "stopped"
    /\ IF StartRefused(run_status.status) THEN
          /\ run_requests' = Append(run_requests, Request("start", "FAILED"))
          /\ UNCHANGED <<run_status, run_queue, run_ended, run_stopper>>
       ELSE
          /\ run_status' = StatusAndMessage("BUSY")
          /\ run_queue' = run_queue + 1
          /\ run_ended' = None
          /\ run_stopper' = IF run_stopper \in {"returned", "raised"} THEN "none"
                            ELSE run_stopper
          /\ run_requests' = Append(run_requests, Request("start", "SUCCESS"))
    /\ UNCHANGED <<run_worker, run_stopped, run_started, RE_takes_time,
                   aborting_takes_time, RE_error>>
    /\ UNCHANGED notRun

\* PUT stop (lines 194-197): a running plan is aborted in a thread of its
\* own.  The tests send one stop to a runner; a stop that would begin a
\* second abort while the first has not ended is not sent.
put_stop ==
    /\ Len(run_requests) < MaxRequests
    /\ run_worker # "stopped"
    /\ InAbort => run_status.status # "BUSY"
    /\ IF run_status.status = "BUSY" THEN
          /\ run_status' = StatusAndMessage("ABORTING")
          /\ run_stopper' = "while"
          /\ run_stopped' = TRUE
          /\ run_requests' = Append(run_requests, Request("stop", "ABORTING"))
       ELSE
          /\ run_requests' = Append(run_requests, Request("stop", "FAILED"))
          /\ UNCHANGED <<run_status, run_stopper, run_stopped>>
    /\ UNCHANGED <<run_queue, run_worker, run_ended, run_started,
                   RE_takes_time, aborting_takes_time, RE_error>>
    /\ UNCHANGED notRun

\* GET status (lines 150-152, 156-159)
get_status ==
    /\ Len(run_requests) < MaxRequests
    /\ run_worker # "stopped"
    /\ run_requests' = Append(run_requests, Request("status", run_status.status))
    /\ UNCHANGED <<run_status, run_queue, run_worker, run_stopper, run_ended,
                   run_stopped, run_started, RE_takes_time, aborting_takes_time,
                   RE_error>>
    /\ UNCHANGED notRun

\* The worker takes the queued start and calls the run engine with the plan.
worker_calls_RE ==
    /\ run_worker = "waiting"
    /\ run_queue > 0
    /\ run_queue' = run_queue - 1
    /\ run_worker' = "while"
    /\ run_started' = run_started + 1
    /\ UNCHANGED <<run_status, run_requests, run_stopper, run_ended, run_stopped,
                   RE_takes_time, aborting_takes_time, RE_error>>
    /\ UNCHANGED notRun

\* `if self.error:` (lines 41, 47): None and the empty string are false
ErrorIsSet(error) == error # None /\ Val(error) # ""

\* MockRunEngine.__call__ (lines 38-42), one step of it: at the loop's test
\* it goes to sleep while RE_takes_time and returns otherwise, after the sleep
\* it raises when self.error is true and tests again otherwise.
MockRunEngineCall(at, takes_time, error) ==
    IF at = "while" THEN (IF takes_time THEN "sleep" ELSE "returns")
    ELSE (IF ErrorIsSet(error) THEN "raises" ELSE "while")

\* MockRunEngine.abort (lines 44-49), one step of it, in the same way; on
\* returning it tells the plan to end (line 49).
MockRunEngineAbort(at, takes_time, error) ==
    IF at = "while" THEN (IF takes_time THEN "sleep" ELSE "returns")
    ELSE (IF ErrorIsSet(error) THEN "raises" ELSE "while")

\* Whether the worker sets the status when its plan ends.  It does for a
\* plan that ends on its own (lines 217-225, 243-249).  For a plan that a
\* stop was accepted for, the tests do not say whether the worker or only
\* the stopping thread reports: either.
WorkerReportChoices(stopped) == IF stopped THEN BOOLEAN ELSE {TRUE}

\* What the plan's end leaves as the status.
StatusAfterPlan(exception) ==
    IF exception = None THEN StatusAndMessage("IDLE")
    ELSE ErrorStatusAndMessage(Val(exception))

\* The run engine's call goes round its loop.
worker_RE_runs ==
    /\ InRE
    /\ MockRunEngineCall(run_worker, RE_takes_time, RE_error) \in {"while", "sleep"}
    /\ run_worker' = MockRunEngineCall(run_worker, RE_takes_time, RE_error)
    /\ UNCHANGED <<run_status, run_queue, run_requests, run_stopper, run_ended,
                   run_stopped, run_started, RE_takes_time, aborting_takes_time,
                   RE_error>>
    /\ UNCHANGED notRun

\* The run engine ends the plan: it returns, or raises the planted error.
worker_RE_ends ==
    /\ InRE
    /\ MockRunEngineCall(run_worker, RE_takes_time, RE_error) \in {"returns", "raises"}
    /\ LET exception ==
             IF MockRunEngineCall(run_worker, RE_takes_time, RE_error) = "raises"
             THEN Some(Exception(Val(RE_error))) ELSE None IN
       /\ run_ended' = Some(exception)
       /\ \E reports \in WorkerReportChoices(run_stopped \/ InAbort) :
             run_status' = IF reports THEN StatusAfterPlan(exception)
                           ELSE run_status
    /\ run_stopped' = FALSE
    /\ run_worker' = "waiting"
    /\ UNCHANGED <<run_queue, run_requests, run_stopper, run_started, RE_takes_time,
                   aborting_takes_time, RE_error>>
    /\ UNCHANGED notRun

\* mutant: the stopping thread leaves ABORTING when the abort has returned
MutStatusAfterAbortLeftAborting(abort_exception) ==
    IF abort_exception # None THEN ErrorStatusAndMessage(Val(abort_exception))
    ELSE StatusAndMessage("ABORTING")

\* What the stopping thread leaves as the status when the abort is over: the
\* abort's exception (lines 234-240), else idle: the runner takes a start
\* again (lines 199-202, 210-214).
StatusAfterAbort(abort_exception) ==
    IF abort_exception # None THEN ErrorStatusAndMessage(Val(abort_exception))
    ELSE StatusAndMessage("IDLE")

\* RE.abort() in the stopping thread goes round its loop.
stopper_abort_runs ==
    /\ InAbort
    /\ MockRunEngineAbort(run_stopper, aborting_takes_time, RE_error) \in {"while", "sleep"}
    /\ run_stopper' = MockRunEngineAbort(run_stopper, aborting_takes_time, RE_error)
    /\ UNCHANGED <<run_status, run_queue, run_requests, run_worker, run_ended,
                   run_stopped, run_started, RE_takes_time, aborting_takes_time,
                   RE_error>>
    /\ UNCHANGED notRun

\* The stopping thread: RE.abort() returns (line 49: the plan is told to end)
\* or raises the planted error (lines 45-48).
stopper_abort_ends ==
    /\ InAbort
    /\ MockRunEngineAbort(run_stopper, aborting_takes_time, RE_error) \in {"returns", "raises"}
    /\ IF MockRunEngineAbort(run_stopper, aborting_takes_time, RE_error) = "raises" THEN
          /\ run_status' = StatusAfterAbort(Some(Exception(Val(RE_error))))
          /\ run_stopper' = "raised"
          /\ UNCHANGED RE_takes_time
       ELSE
          /\ RE_takes_time' = FALSE
          /\ run_status' = StatusAfterAbort(None)
          /\ run_stopper' = "returned"
    /\ UNCHANGED <<run_queue, run_requests, run_worker, run_ended, run_stopped,
                   run_started, aborting_takes_time, RE_error>>
    /\ UNCHANGED notRun

\* The test plants an error in the run engine (lines 222, 234).
set_error ==
    /\ run_worker # "stopped"
    /\ RE_error = None
    /\ \E e \in ErrorMessages : RE_error' = Some(e)
    /\ UNCHANGED <<run_status, run_queue, run_requests, run_worker, run_stopper,
                   run_ended, run_stopped, run_started, RE_takes_time,
                   aborting_takes_time>>
    /\ UNCHANGED notRun

\* The test lets the plan end on its own (line 247).
set_RE_takes_time ==
    /\ run_worker # "stopped"
    /\ RE_takes_time
    /\ RE_takes_time' = FALSE
    /\ UNCHANGED <<run_status, run_queue, run_requests, run_worker, run_stopper,
                   run_ended, run_stopped, run_started, aborting_takes_time, RE_error>>
    /\ UNCHANGED notRun

\* The test makes the abort take time, or lets it finish (lines 193, 199, 231).
set_aborting_takes_time ==
    /\ run_worker # "stopped"
    /\ aborting_takes_time' = ~aborting_takes_time
    /\ aborting_takes_time' => run_requests = <<>>
    /\ UNCHANGED <<run_status, run_queue, run_requests, run_worker, run_stopper,
                   run_ended, run_stopped, run_started, RE_takes_time, RE_error>>
    /\ UNCHANGED notRun

RunNext ==
    \/ put_start
    \/ put_stop
    \/ get_status
    \/ worker_calls_RE
    \/ worker_RE_runs
    \/ worker_RE_ends
    \/ stopper_abort_runs
    \/ stopper_abort_ends
    \/ set_error
    \/ set_RE_takes_time
    \/ set_aborting_takes_time

(***************************************************************************)
(*                     ISPYB DEPOSITION BRACKET                            *)
(* StoreInIspyb used as a context manager (store_in_ispyb.py):  __enter__  *)
(* stores the grid scan and keeps the ids of the records made, __exit__    *)
(* writes the end time and the run status to each of them.                 *)
(***************************************************************************)

\* ---- bound ----
\* The clock, in ticks, stops advancing here.
MaxNow == 5

\* ---- inputs ----
\* Ticks of datetime.now() in one second of the formatted time.
TicksPerSecond == 2
\* Ids the store hands out for a collection record, and for the group.
CollectionIds == {11, 57}
CollectionGroupIds == {4}
\* What the body of the with statement is left with.
BodyExceptions == {None, Some("Exception")}

\* get_current_time_string (lines 200-202): now, formatted to the second
get_current_time_string(now) == now \div TicksPerSecond

\* _store_scan_data (3D: lines 221-247, 2D: lines 259-268): the ids of the
\* records made, two for a 3D scan and one for a 2D scan, each the id that
\* its own call of _store_data_collection_table returned
_store_scan_data(is_3d, data_collection_id_1, data_collection_id_2) ==
    IF is_3d THEN <<data_collection_id_1, data_collection_id_2>>
    ELSE <<data_collection_id_1>>

DepIdle ==
    /\ dep_pc = "unused"
    /\ dep_is_3d = FALSE
    /\ dep_ids = None
    /\ dep_group = None
    /\ dep_exception = None
    /\ dep_now = 0
    /\ dep_current_time = None
    /\ dep_run_status = None
    /\ dep_i = 0
    /\ dep_updates = <<>>

\* __init__ (lines 19-35)
DepInit ==
    /\ dep_pc = "outside"
    /\ dep_is_3d \in BOOLEAN
    /\ dep_ids = None
    /\ dep_group = None
    /\ dep_exception = None
    /\ dep_now = 0
    /\ dep_current_time = None
    /\ dep_run_status = None
    /\ dep_i = 0
    /\ dep_updates = <<>>

\* __enter__ (lines 37-45)
dep_enter ==
    /\ dep_pc = "outside"
    /\ \E id_1, id_2 \in CollectionIds, group \in CollectionGroupIds :
          /\ dep_ids' = Some(_store_scan_data(dep_is_3d, id_1, id_2))
          /\ dep_group' = Some(group)
    /\ dep_pc' = "inside"
    /\ UNCHANGED <<dep_is_3d, dep_exception, dep_now, dep_current_time,
                   dep_run_status, dep_i, dep_updates>>
    /\ UNCHANGED notDep

\* Time passes, also between two calls of __exit__.
dep_tick ==
    /\ dep_pc \in {"outside", "inside", "updating"}
    /\ dep_now < MaxNow
    /\ dep_now' = dep_now + 1
    /\ UNCHANGED <<dep_pc, dep_is_3d, dep_ids, dep_group, dep_exception,
                   dep_current_time, dep_run_status, dep_i, dep_updates>>
    /\ UNCHANGED notDep

\* mutant: the status written does not depend on how the bracket is left
MutExitRunStatusSuccessful(exception) == "DataCollection Successful"

\* run_status of __exit__ (lines 48-51)
ExitRunStatus(exception) ==
    IF exception # None THEN "DataCollection Unsuccessful"
    ELSE "DataCollection Successful"

\* __exit__ up to its loop (lines 47-52): the body is left, with an exception
\* or without one
dep_exit ==
    /\ dep_pc = "inside"
    /\ \E exception \in BodyExceptions :
          /\ dep_exception' = exception
          /\ dep_run_status' = Some(ExitRunStatus(exception))
    /\ dep_current_time' = Some(get_current_time_string(dep_now))
    /\ dep_i' = 1
    /\ dep_pc' = "updating"
    /\ UNCHANGED <<dep_is_3d, dep_ids, dep_group, dep_now, dep_updates>>
    /\ UNCHANGED notDep

\* update_grid_scan_with_end_time_and_status (lines 87-102): the upsert made
Upsert(end_time, status, datacollection_id, datacollection_group_id) ==
    [id |-> datacollection_id, parentid |-> datacollection_group_id,
     endtime |-> end_time, run_status |-> status]

\* One round of the loop of __exit__ (lines 53-59)
dep_update ==
    /\ dep_pc = "updating"
    /\ dep_i <= Len(Val(dep_ids))
    /\ dep_updates' = Append(dep_updates,
                             Upsert(Val(dep_current_time), Val(dep_run_status),
                                    Val(dep_ids)[dep_i], Val(dep_group)))
    /\ dep_i' = dep_i + 1
    /\ UNCHANGED <<dep_pc, dep_is_3d, dep_ids, dep_group, dep_exception, dep_now,
                   dep_current_time, dep_run_status>>
    /\ UNCHANGED notDep

\* The loop is over: __exit__ returns None, so the exception goes on.
dep_left ==
    /\ dep_pc = "updating"
    /\ dep_i > Len(Val(dep_ids))
    /\ dep_pc' = "left"
    /\ UNCHANGED <<dep_is_3d, dep_ids, dep_group, dep_exception, dep_now,
                   dep_current_time, dep_run_status, dep_i, dep_updates>>
    /\ UNCHANGED notDep

DepNext ==
    \/ dep_enter
    \/ dep_tick
    \/ dep_exit
    \/ dep_update
    \/ dep_left

(***************************************************************************)
(*                 FAST GRID-SCAN PLAN: THE NEXUS WRITER                   *)
(* run_gridscan of fast_grid_scan_plan.py (lines 55-128), message by       *)
(* message: the NeXus writer is a context manager around do_fgs, the       *)
(* staged kickoff and complete of the scan (lines 91-97).  An action runs  *)
(* the plan from one message to the next.                                  *)
(***************************************************************************)

\* ---- inputs ----
\* What a failing message, or a request to abort, raises into the plan.
FastFaults == {"FailedStatus", "RequestAbort"}
\* Whether the omega read back passes the assertions (lines 66-70).
OmegaReadings == {"in_tolerance", "out_of_tolerance"}
\* Whether the writer's files could be made on entry.
WriterEnterOutcomes == {"ok", "OSError"}

\* The messages of run_gridscan in the order it yields them when nothing
\* fails: the opening of the run (line 55), the read of omega (line 66), the
\* four reads of update_params_from_epics_devices (lines 47-52), the scan
\* parameters (line 89), do_fgs inside stage_decorator([zebra, eiger, fgs])
\* with the wait of complete(fgs, wait=True) (lines 91-94), the move of
\* omega and its wait (line 116), the wait for the sample motors (line 119),
\* the move of x, y and z and its wait (lines 121-128) and the close of the
\* run (line 55).
FastMessages ==
    <<"open_run", "rd_omega",
      "rd_undulator_gap", "rd_synchrotron_mode", "rd_slit_gap_xgap",
      "rd_slit_gap_ygap", "set_fast_grid_scan_params",
      "stage_zebra", "stage_eiger", "stage_fgs",
      "kickoff", "complete", "wait_complete",
      "unstage_fgs", "unstage_eiger", "unstage_zebra",
      "set_omega", "wait_omega", "wait_sample_motors",
      "set_x", "set_y", "set_z", "wait_xyz", "close_run">>

\* An entry of the log: a message done, or a call made for a collection id
\* (or for the group).
FastMsg(op) == [op |-> op, id |-> 0]
FastCall(op, id) == [op |-> op, id |-> id]
\* for id in datacollection_ids: op(id) (lines 85-86, 100-106, 108-109)
ForEachId(op, ids) == [i \in 1..Len(ids) |-> FastCall(op, ids[i])]

IndexOf(message) == CHOOSE i \in 1..Len(FastMessages) : FastMessages[i] = message
MessageAfter(message) == FastMessages[IndexOf(message) + 1]

\* The messages of do_fgs with its staging (lines 91-94)
StageMessages == {"stage_zebra", "stage_eiger", "stage_fgs"}
ScanMessages == {"kickoff", "complete", "wait_complete"}
UnstageMessages == {"unstage_fgs", "unstage_eiger", "unstage_zebra"}
\* The reads of update_params_from_epics_devices (lines 47-52)
UpdateParamsReads ==
    {"rd_undulator_gap", "rd_synchrotron_mode", "rd_slit_gap_xgap",
     "rd_slit_gap_ygap"}
\* The messages of the moves after the scan (lines 116-128)
MoveMessages ==
    {"set_omega", "wait_omega", "wait_sample_motors",
     "set_x", "set_y", "set_z", "wait_xyz"}

\* NexusWriter.__enter__ and __exit__: the writer's files are open between
\* the two.
NexusWriterEnter(writer) == "open"
NexusWriterExit(writer) == "closed"

\* mutant: the writer is closed only when the scan did not raise
MutWithNexusWriterLeftOnSuccess(writer, exception) ==
    IF exception = None THEN NexusWriterExit(writer) ELSE writer

\* with NexusWriter(parameters): ... (lines 96-97): the with statement calls
\* __exit__ however its body is left
WithNexusWriterLeft(writer, exception) == NexusWriterExit(writer)

FastIdle ==
    /\ fast_pc = "unused"
    /\ fast_exc = None
    /\ fast_fault_at = None
    /\ fast_writer = "unopened"
    /\ fast_opened = 0
    /\ fast_closed = 0
    /\ fast_log = <<>>
    /\ fast_datacollection_ids = <<>>

\* get_plan (lines 131-170): the plan, not yet at its first message
FastInit ==
    /\ fast_pc = "open_run"
    /\ fast_exc = None
    /\ fast_fault_at = None
    /\ fast_writer = "unopened"
    /\ fast_opened = 0
    /\ fast_closed = 0
    /\ fast_log = <<>>
    /\ fast_datacollection_ids = <<>>

\* The plan raises outside do_fgs: run_decorator closes the run it has
\* opened (line 55); an exception at open_run or at close_run itself leaves
\* the plan with no close_run after it.
FastRaise(exception, log) ==
    /\ fast_exc' = Some(exception)
    /\ fast_fault_at' = Some(fast_pc)
    /\ fast_pc' = IF fast_pc \in {"open_run", "close_run"} THEN "raised"
                  ELSE "close_run"
    /\ fast_log' = log
    /\ UNCHANGED <<fast_writer, fast_opened, fast_closed, fast_datacollection_ids>>

\* run_decorator opens the run (line 55)
fast_open_run ==
    /\ fast_pc = "open_run"
    /\ fast_pc' = MessageAfter(fast_pc)
    /\ fast_log' = Append(fast_log, FastMsg(fast_pc))
    /\ UNCHANGED <<fast_exc, fast_fault_at, fast_writer, fast_opened, fast_closed,
                   fast_datacollection_ids>>
    /\ UNCHANGED notFast

\* rd omega returns; the assertions (lines 66-70)
fast_rd_omega ==
    /\ fast_pc = "rd_omega"
    /\ \E current_omega \in OmegaReadings :
          IF current_omega = "in_tolerance" THEN
             /\ fast_pc' = MessageAfter(fast_pc)
             /\ fast_log' = Append(fast_log, FastMsg(fast_pc))
             /\ UNCHANGED <<fast_exc, fast_fault_at, fast_writer, fast_opened,
                            fast_closed, fast_datacollection_ids>>
          ELSE FastRaise("AssertionError", Append(fast_log, FastMsg(fast_pc)))
    /\ UNCHANGED notFast

\* A read of update_params_from_epics_devices returns (lines 47-52); after
\* the last of them the grid scan is stored, one record for a 2D scan and
\* two for a 3D scan, and run_start is sent for the id of each (lines 76-86)
fast_update_params ==
    /\ fast_pc \in UpdateParamsReads
    /\ fast_pc' = MessageAfter(fast_pc)
    /\ IF fast_pc = "rd_slit_gap_ygap" THEN
          \E is_3d_grid_scan \in BOOLEAN, id_1, id_2 \in CollectionIds :
             LET ids == _store_scan_data(is_3d_grid_scan, id_1, id_2) IN
             /\ fast_datacollection_ids' = ids
             /\ fast_log' = fast_log
                              \o <<FastMsg(fast_pc), FastMsg("store_grid_scan")>>
                              \o ForEachId("run_start", ids)
       ELSE
          /\ fast_log' = Append(fast_log, FastMsg(fast_pc))
          /\ UNCHANGED fast_datacollection_ids
    /\ UNCHANGED <<fast_exc, fast_fault_at, fast_writer, fast_opened, fast_closed>>
    /\ UNCHANGED notFast

\* The scan parameters are set; the with statement is entered and do_fgs
\* begins with its staging (lines 89-97)
fast_set_params ==
    /\ fast_pc = "set_fast_grid_scan_params"
    /\ \E outcome \in WriterEnterOutcomes :
          IF outcome = "ok" THEN
             /\ fast_writer' = NexusWriterEnter(fast_writer)
             /\ fast_opened' = fast_opened + 1
             /\ fast_pc' = MessageAfter(fast_pc)
             /\ fast_log' = fast_log \o <<FastMsg(fast_pc), FastMsg("NexusWriter.__enter__")>>
             /\ UNCHANGED <<fast_exc, fast_fault_at, fast_closed, fast_datacollection_ids>>
          ELSE FastRaise(outcome, Append(fast_log, FastMsg(fast_pc)))
    /\ UNCHANGED notFast

\* A message of do_fgs or of its staging is done (lines 91-94)
fast_do_fgs ==
    /\ fast_pc \in StageMessages \cup ScanMessages
    /\ fast_pc' = MessageAfter(fast_pc)
    /\ fast_log' = Append(fast_log, FastMsg(fast_pc))
    /\ UNCHANGED <<fast_exc, fast_fault_at, fast_writer, fast_opened, fast_closed,
                   fast_datacollection_ids>>
    /\ UNCHANGED notFast

\* A message of do_fgs or of its staging fails, or the abort is raised at
\* it: stage_decorator unstages before the exception goes on (line 91)
fast_do_fgs_raises ==
    /\ fast_pc \in StageMessages \cup ScanMessages
    /\ \E fault \in FastFaults : fast_exc' = Some(fault)
    /\ fast_fault_at' = Some(fast_pc)
    /\ fast_pc' = "unstage_fgs"
    /\ fast_log' = Append(fast_log, FastMsg("raised"))
    /\ UNCHANGED <<fast_writer, fast_opened, fast_closed, fast_datacollection_ids>>
    /\ UNCHANGED notFast

\* The group id store_grid_scan returned (line 83).
datacollection_group_id == CHOOSE group \in CollectionGroupIds : TRUE

\* mutant: each record's run_end is sent as soon as that record has its status
MutAfterScanCallsRecordByRecord(ids) ==
    IF ids = <<>> THEN
        <<FastCall("wait_for_result", datacollection_group_id)>>
    ELSE
        <<FastCall("update_grid_scan_with_end_time_and_status", Head(ids)),
          FastCall("run_end", Head(ids))>>
        \o ForEachId("update_grid_scan_with_end_time_and_status", Tail(ids))
        \o ForEachId("run_end", Tail(ids))
        \o <<FastCall("wait_for_result", datacollection_group_id)>>

\* What follows the with statement when do_fgs returned: the end time and
\* the status for every id, then run_end for every id, then the wait for the
\* result of the group (lines 99-111)
AfterScanCalls(ids) ==
    ForEachId("update_grid_scan_with_end_time_and_status", ids)
    \o ForEachId("run_end", ids)
    \o <<FastCall("wait_for_result", datacollection_group_id)>>

\* The with statement is left (lines 96-97), then the plan goes on, or the
\* exception does.
FastLeaveWith(exception, log) ==
    /\ fast_writer' = WithNexusWriterLeft(fast_writer, exception)
    /\ fast_closed' = IF WithNexusWriterLeft(fast_writer, exception) = "closed"
                      THEN fast_closed + 1 ELSE fast_closed
    /\ fast_exc' = exception
    /\ IF exception = None THEN
          /\ fast_pc' = "set_omega"
          /\ fast_log' = log \o <<FastMsg("NexusWriter.__exit__")>>
                              \o AfterScanCalls(fast_datacollection_ids)
       ELSE
          /\ fast_pc' = "close_run"
          /\ fast_log' = log \o <<FastMsg("NexusWriter.__exit__")>>
    /\ UNCHANGED <<fast_opened, fast_datacollection_ids>>

\* An unstage message is done or fails (line 91); a failing one replaces the
\* exception in flight and the devices left are not unstaged
fast_unstage ==
    /\ fast_pc \in UnstageMessages
    /\ \E outcome \in UnstageOutcomes :
          IF outcome # "ok" THEN
             /\ FastLeaveWith(Some(outcome), Append(fast_log, FastMsg(fast_pc)))
             /\ fast_fault_at' = IF fast_fault_at = None THEN Some(fast_pc)
                                 ELSE fast_fault_at
          ELSE IF fast_pc = "unstage_zebra" THEN
             /\ FastLeaveWith(fast_exc, Append(fast_log, FastMsg(fast_pc)))
             /\ UNCHANGED fast_fault_at
          ELSE
             /\ fast_pc' = MessageAfter(fast_pc)
             /\ fast_log' = Append(fast_log, FastMsg(fast_pc))
             /\ UNCHANGED <<fast_exc, fast_fault_at, fast_writer, fast_opened,
                            fast_closed, fast_datacollection_ids>>
    /\ UNCHANGED notFast

\* A message after the scan is done (lines 116-128)
fast_moves ==
    /\ fast_pc \in MoveMessages
    /\ fast_pc' = MessageAfter(fast_pc)
    /\ fast_log' = Append(fast_log, FastMsg(fast_pc))
    /\ UNCHANGED <<fast_exc, fast_fault_at, fast_writer, fast_opened, fast_closed,
                   fast_datacollection_ids>>
    /\ UNCHANGED notFast

\* A message outside do_fgs fails, or the abort is raised at it.
fast_message_raises ==
    /\ fast_pc \in {"open_run", "rd_omega", "set_fast_grid_scan_params",
                    "close_run"}
                      \cup UpdateParamsReads \cup MoveMessages
    /\ \E fault \in FastFaults : FastRaise(fault, Append(fast_log, FastMsg("raised")))
    /\ UNCHANGED notFast

\* run_decorator closes the run (line 55) with the exit status of the
\* exception in flight; the plan is over
fast_close_run ==
    /\ fast_pc = "close_run"
    /\ fast_pc' = IF fast_exc = None THEN "done" ELSE "raised"
    /\ fast_log' = Append(fast_log,
                          FastMsg(IF fast_exc = None THEN CloseRunOp("none")
                                  ELSE CloseRunOp(Val(fast_exc))))
    /\ UNCHANGED <<fast_exc, fast_fault_at, fast_writer, fast_opened, fast_closed,
                   fast_datacollection_ids>>
    /\ UNCHANGED notFast

FastNext ==
    \/ fast_open_run
    \/ fast_rd_omega
    \/ fast_update_params
    \/ fast_set_params
    \/ fast_do_fgs
    \/ fast_do_fgs_raises
    \/ fast_unstage
    \/ fast_moves
    \/ fast_message_raises
    \/ fast_close_run

(***************************************************************************)
(*                 PARAMETERS: FLATTENING NESTED DICTIONARIES              *)
(* flatten_dict of internal_parameters.py (lines 60-71), which             *)
(* InternalParameters.__init__ applies to the external parameters          *)
(* (line 90).  A dictionary is the sequence of its entries in insertion    *)
(* order; an entry is a leaf (key, value) or a nested dictionary.          *)
(***************************************************************************)

\* ---- bound ----
\* Entries of the input dictionary, nested ones counted.
MaxEntries == 4

\* ---- inputs ----
ParamKeys == {"a", "b"}
ParamValues == {1, 2}

Leaf(k, v) == [k |-> k, is_dict |-> FALSE, v |-> v, d |-> <<>>]
SubDict(k, d) == [k |-> k, is_dict |-> TRUE, v |-> 0, d |-> d]

KeysOf(d) == {d[i].k : i \in 1..Len(d)}

\* The dictionaries that have n entries in all, nested ones counted.  A
\* Python dict has a key once: the keys of a dictionary are distinct, and so
\* are those of every dictionary nested in it.
RECURSIVE DictsOfSize(_)
DictsOfSize(n) ==
    IF n = 0 THEN {<<>>}
    ELSE UNION {
           {d \in
              {<<e>> \o rest :
                 e \in {Leaf(k, v) : k \in {x \in ParamKeys : m = 1},
                                     v \in ParamValues}
                       \cup {SubDict(k, sub) : k \in ParamKeys,
                                               sub \in DictsOfSize(m - 1)},
                 rest \in DictsOfSize(n - m)} :
              \A i, j \in 1..Len(d) : i # j => d[i].k # d[j].k}
           : m \in 1..n}

\* The dictionaries of at most MaxEntries entries.
ExternalParams == UNION {DictsOfSize(n) : n \in 0..MaxEntries}

\* A flat dictionary is the set of its items; a key has at most one.
Item(k, v) == [k |-> k, v |-> v]
ItemKeys(items) == {it.k : it \in items}

\* items.update(other) (line 66): the other's value wins for a key of both
update(items, other) ==
    {it \in items : it.k \notin ItemKeys(other)} \cup other

Raised == [raised |-> TRUE, items |-> {}]
Returned(items) == [raised |-> FALSE, items |-> items]

\* The test of line 68
DuplicateFound(k, items, parent_items) ==
    k \in ItemKeys(items) \/ k \in ItemKeys(parent_items)

\* flatten_dict (lines 60-71): the loop from entry i on, with the items so
\* far; a nested dictionary is flattened with this level's items as its
\* parent_items (line 65) and its result merged in with update (line 66)
RECURSIVE FlattenFrom(_, _, _, _)
FlattenFrom(d, i, items, parent_items) ==
    IF i > Len(d) THEN Returned(items)
    ELSE IF d[i].is_dict THEN
           LET flattened_subdict == FlattenFrom(d[i].d, 1, {}, items) IN
           IF flattened_subdict.raised THEN Raised
           ELSE FlattenFrom(d, i + 1, update(items, flattened_subdict.items),
                            parent_items)
    ELSE IF DuplicateFound(d[i].k, items, parent_items) THEN Raised
    ELSE FlattenFrom(d, i + 1, items \cup {Item(d[i].k, d[i].v)}, parent_items)

flatten_dict(d, parent_items) == FlattenFrom(d, 1, {}, parent_items)

FlatIdle ==
    /\ flat_pc = "unused"
    /\ flat_input = <<>>
    /\ flat_result = None

FlatInit ==
    /\ flat_pc = "__init__"
    /\ flat_input \in {d \in ExternalParams : d # <<>>}
    /\ flat_result = None

\* InternalParameters.__init__ (line 90): flatten_dict(external_params)
flat_flatten_dict ==
    /\ flat_pc = "__init__"
    /\ flat_result' = Some(flatten_dict(flat_input, {}))
    /\ flat_pc' = IF flatten_dict(flat_input, {}).raised THEN "raised"
                  ELSE "experiment_param_preprocessing"
    /\ UNCHANGED flat_input
    /\ UNCHANGED notFlat

FlatNext ==
    \/ flat_flatten_dict

(***************************************************************************)
(*              GRID DETECTION, THEN THE X-RAY CENTRING SCAN               *)
(* detect_grid_and_do_gridscan of grid_detect_then_xray_centre_plan.py     *)
(* (lines 113-201) with wait_for_det_to_finish_moving (lines 87-99),       *)
(* message by message.  An action runs the plan from one message to the    *)
(* next; det_log holds the sub-plans run and the commands issued.          *)
(***************************************************************************)

\* ---- program constants ----
\* wait_for_det_to_finish_moving: timeout=120.0 and SLEEP_PER_CHECK = 0.1, in
\* tenths of a second
DET_TIMEOUT_TENTHS == 1200
DET_SLEEP_PER_CHECK_TENTHS == 1
\* line 90
det_times_to_check == DET_TIMEOUT_TENTHS \div DET_SLEEP_PER_CHECK_TENTHS

\* ---- inputs ----
\* What bps.rd returns for the detector shutter and for detector z DMOV.
ShutterReadings == {0, 1}
DmovReadings == {0, 1}
\* What a failing message, or a request to abort, raises into the plan.
DetFaults == {"FailedStatus", "RequestAbort"}

\* The messages of the plan, the sub-plans taken as one message each.
DetMessages == {"subscribe", "grid_detection_plan", "unsubscribe",
                "abs_set_backlight", "abs_set_aperture",
                "rd_shutter", "rd_z_dmov", "sleep", "flyscan_xray_centre"}

\* mutant: the shutter alone decides
MutDetectorReadyShutterOnly(state, dmov) == state = 1

\* line 96
DetectorReady(state, dmov) == state = 1 /\ dmov = 1

DetIdle ==
    /\ det_pc = "unused"
    /\ det_checks = 0
    /\ detector_state = None
    /\ detector_z_dmov = None
    /\ det_log = <<>>
    /\ det_exc = None

\* The generator detect_grid_and_do_gridscan, not yet at its first statement
DetInit ==
    /\ det_pc = "start"
    /\ det_checks = 0
    /\ detector_state = None
    /\ detector_z_dmov = None
    /\ det_log = <<>>
    /\ det_exc = None

\* The plan raises: nothing after the raising statement is run.
DetRaise(exception) ==
    /\ det_exc' = Some(exception)
    /\ det_pc' = "raised"

\* lines 91 and 99: the for loop takes its next round, or is exhausted and
\* TimeoutError is raised
DetNextCheck(checks) ==
    IF checks < det_times_to_check THEN
        /\ det_pc' = "rd_shutter"
        /\ UNCHANGED det_exc
    ELSE DetRaise("TimeoutError")

\* line 121: the assertion on the aperture positions
det_start ==
    /\ det_pc = "start"
    /\ \E aperture_positions_loaded \in BOOLEAN :
          IF aperture_positions_loaded THEN
             /\ det_pc' = "subscribe"
             /\ UNCHANGED det_exc
          ELSE DetRaise("AssertionError")
    /\ UNCHANGED <<det_checks, detector_state, detector_z_dmov, det_log>>
    /\ UNCHANGED notDet

\* run_grid_detection_plan (lines 132-158), inside
\* subs_decorator([oav_callback]): the callback is subscribed (line 132);
\* grid detection runs to its end, or raises (lines 139-150); the callback
\* is unsubscribed either way, and then the exception goes on, or the
\* parameters of the fly scan are made from what the callback holds
\* (lines 160-175).  An exception at the unsubscribe replaces the one in
\* flight.
run_grid_detection_plan ==
    /\ \/ /\ det_pc = "subscribe"
          /\ det_log' = Append(det_log, "subscribe")
          /\ det_pc' = "grid_detection_plan"
          /\ UNCHANGED det_exc
       \/ /\ det_pc = "grid_detection_plan"
          /\ det_log' = Append(det_log, "grid_detection_plan")
          /\ det_pc' = "unsubscribe"
          /\ \/ UNCHANGED det_exc
             \/ \E fault \in DetFaults : det_exc' = Some(fault)
       \/ /\ det_pc = "unsubscribe"
          /\ det_log' = Append(det_log, "unsubscribe")
          /\ det_pc' = IF det_exc = None THEN "abs_set_backlight" ELSE "raised"
          /\ UNCHANGED det_exc
    /\ UNCHANGED <<det_checks, detector_state, detector_z_dmov>>
    /\ UNCHANGED notDet

\* line 177: bps.abs_set(backlight.pos, Backlight.OUT)
det_abs_set_backlight ==
    /\ det_pc = "abs_set_backlight"
    /\ det_log' = Append(det_log, "abs_set backlight OUT")
    /\ det_pc' = "abs_set_aperture"
    /\ UNCHANGED <<det_checks, detector_state, detector_z_dmov, det_exc>>
    /\ UNCHANGED notDet

\* lines 181-184: bps.abs_set(aperture_scatterguard, SMALL), and
\* wait_for_det_to_finish_moving begins (lines 88-91)
det_abs_set_aperture ==
    /\ det_pc = "abs_set_aperture"
    /\ det_log' = Append(det_log, "abs_set aperture SMALL")
    /\ DetNextCheck(0)
    /\ UNCHANGED <<det_checks, detector_state, detector_z_dmov>>
    /\ UNCHANGED notDet

\* line 92
det_rd_shutter ==
    /\ det_pc = "rd_shutter"
    /\ \E value \in ShutterReadings : detector_state' = Some(value)
    /\ det_pc' = "rd_z_dmov"
    /\ UNCHANGED <<det_checks, detector_z_dmov, det_log, det_exc>>
    /\ UNCHANGED notDet

\* lines 93-97: the second read of the check, and the return when both say
\* the detector is in place
det_rd_z_dmov ==
    /\ det_pc = "rd_z_dmov"
    /\ \E value \in DmovReadings :
          /\ detector_z_dmov' = Some(value)
          /\ det_pc' = IF DetectorReady(Val(detector_state), value)
                       THEN "flyscan_xray_centre" ELSE "sleep"
    /\ det_checks' = det_checks + 1
    /\ UNCHANGED <<detector_state, det_log, det_exc>>
    /\ UNCHANGED notDet

\* line 98, then the loop (lines 91 and 99)
det_sleep ==
    /\ det_pc = "sleep"
    /\ DetNextCheck(det_checks)
    /\ UNCHANGED <<det_checks, detector_state, detector_z_dmov, det_log>>
    /\ UNCHANGED notDet

\* lines 186-201: the fly scan is started, and runs to its end
det_flyscan_xray_centre ==
    /\ det_pc = "flyscan_xray_centre"
    /\ det_log' = Append(det_log, "flyscan_xray_centre")
    /\ det_pc' = "done"
    /\ UNCHANGED <<det_checks, detector_state, detector_z_dmov, det_exc>>
    /\ UNCHANGED notDet

\* A message fails, or the abort is raised at it: at the subscribe nothing
\* has been subscribed and grid detection is not started; the fly scan that
\* fails has been started.  Grid detection that fails is a step of
\* run_grid_detection_plan, which unsubscribes before the exception goes on.
det_message_raises ==
    /\ det_pc \in DetMessages \ {"grid_detection_plan"}
    /\ \E fault \in DetFaults : DetRaise(fault)
    /\ det_log' = IF det_pc = "flyscan_xray_centre"
                  THEN Append(det_log, det_pc) ELSE det_log
    /\ UNCHANGED <<det_checks, detector_state, detector_z_dmov>>
    /\ UNCHANGED notDet

DetNext ==
    \/ det_start
    \/ run_grid_detection_plan
    \/ det_abs_set_backlight
    \/ det_abs_set_aperture
    \/ det_rd_shutter
    \/ det_rd_z_dmov
    \/ det_sleep
    \/ det_flyscan_xray_centre
    \/ det_message_raises

(***************************************************************************)
(*                    PANDA: SET-UP FOR THE FLY SCAN                       *)
(* setup_panda_for_flyscan and arm_panda_for_gridscan of setup_panda.py    *)
(* (lines 18-36, 125-127, 143-148), and disarm_panda_for_gridscan (lines   *)
(* 151-160), a plan of its own, message by message.  bps.abs_set starts a  *)
(* set and goes on; the set completes, or fails, at some later time, and   *)
(* only bps.wait on its group (or wait=True) holds the plan until then.    *)
(***************************************************************************)

\* ---- program constants ----
MM_TO_ENCODER_COUNTS == 20000

\* ---- inputs ----
\* initial_x, in mm
InitialXs == {0, 1}
\* What a failing message, or a request to abort, raises into the plan.
PandaFaults == {"FailedStatus", "RequestAbort"}

\* The sets of disarm_panda_for_gridscan, in its order (lines 152-157), and
\* the signal of each.
DisarmSets == <<"seq1_enable_ZERO", "clock1_enable_ZERO", "pulse1_enable_ZERO">>
DisarmSignals == <<"seq1_enable", "clock1_enable", "pulse1_enable">>
\* Its messages: the three sets, the wait (line 158), the wait of wait=True
\* (lines 159-160).
DisarmAt ==
    <<"disarm_abs_set_seq1_enable", "disarm_abs_set_clock1_enable",
      "disarm_abs_set_pulse1_enable", "disarm_wait", "disarm_wait_group">>

\* The sets the plans make: the signal, and ZERO for a set of
\* disarm_panda_for_gridscan.
PandaSignals ==
    {"inenc1_setp", "seq1_table", "seq1_enable", "pulse1_enable"}
        \cup {DisarmSets[k] : k \in DOMAIN DisarmSets}

\* The group each set is started in: wait=True waits for its own set (lines
\* 34-36), the table is set in no group (line 125), the enables in the group
\* of arm_panda_for_gridscan (lines 144-145), the sets to ZERO in the group
\* of disarm_panda_for_gridscan (lines 152-157)
GroupOf(signal) ==
    CASE signal = "inenc1_setp" -> "wait_true"
      [] signal = "seq1_table" -> "no_group"
      [] signal \in {"seq1_enable", "pulse1_enable"} -> "arm_panda_gridscan"
      [] OTHER -> "disarm_panda_gridscan"

\* A command of the log: the signal set and the value (an enable's "ONE" is
\* 1 and its "ZERO" is 0, the table of lines 86-123 is 0).
PandaSet(signal, value) == [op |-> "abs_set", signal |-> signal, value |-> value]

\* mutant: the wait ends when one set of the group is done
MutGroupDoneWhenOneIs(status, group) ==
    \E s \in PandaSignals : GroupOf(s) = group /\ status[s] = "done"

\* bps.wait(group=...): every set started in the group is done
GroupDone(status, group) ==
    \A s \in PandaSignals : (GroupOf(s) = group /\ status[s] # "unset") => status[s] = "done"

\* bps.wait(group=...): a set of the group has failed
GroupFailed(status, group) ==
    \E s \in PandaSignals : GroupOf(s) = group /\ status[s] = "failed"

PandaIdle ==
    /\ panda_pc = "unused"
    /\ panda_initial_x = 0
    /\ panda_status = [s \in PandaSignals |-> "unset"]
    /\ panda_log = <<>>
    /\ panda_exc = None

\* The generator setup_panda_for_flyscan, or disarm_panda_for_gridscan, not
\* yet at its first message
PandaInit ==
    /\ panda_pc \in {"load_device", DisarmAt[1]}
    /\ panda_initial_x \in InitialXs
    /\ panda_status = [s \in PandaSignals |-> "unset"]
    /\ panda_log = <<>>
    /\ panda_exc = None

\* bps.abs_set: the set is started and its command is in the log
AbsSet(signal, value) ==
    /\ panda_status' = [panda_status EXCEPT ![signal] = "pending"]
    /\ panda_log' = Append(panda_log, PandaSet(signal, value))

\* bps.wait on a group returns once its sets are done, or raises what a set
\* of the group failed with, or, when it has a timeout (GENERAL_TIMEOUT,
\* lines 146 and 148), raises TimeoutError with a set still pending
Wait(group, has_timeout, next) ==
    IF GroupFailed(panda_status, group) THEN
        /\ panda_pc' = "raised"
        /\ panda_exc' = Some("FailedStatus")
    ELSE IF GroupDone(panda_status, group) THEN
        /\ panda_pc' = next
        /\ UNCHANGED panda_exc
    ELSE
        /\ has_timeout
        /\ panda_pc' = "raised"
        /\ panda_exc' = Some("TimeoutError")

\* line 29: load_device(panda, config_yaml_path) has run to its end
panda_load_device ==
    /\ panda_pc = "load_device"
    /\ panda_log' =
          Append(panda_log, [op |-> "load_device", signal |-> "panda", value |-> 0])
    /\ panda_pc' = "abs_set_inenc1_setp"
    /\ UNCHANGED <<panda_initial_x, panda_status, panda_exc>>
    /\ UNCHANGED notPanda

\* lines 34-36: the set of abs_set(..., wait=True)
panda_abs_set_inenc1_setp ==
    /\ panda_pc = "abs_set_inenc1_setp"
    /\ AbsSet("inenc1_setp", panda_initial_x * MM_TO_ENCODER_COUNTS)
    /\ panda_pc' = "wait_inenc1_setp"
    /\ UNCHANGED <<panda_initial_x, panda_exc>>
    /\ UNCHANGED notPanda

\* lines 34-36: the wait of abs_set(..., wait=True)
panda_wait_inenc1_setp ==
    /\ panda_pc = "wait_inenc1_setp"
    /\ Wait("wait_true", FALSE, "abs_set_seq1_table")
    /\ UNCHANGED <<panda_initial_x, panda_status, panda_log>>
    /\ UNCHANGED notPanda

\* line 125: bps.abs_set(panda.seq[1].table, table), no wait and no group
panda_abs_set_seq1_table ==
    /\ panda_pc = "abs_set_seq1_table"
    /\ AbsSet("seq1_table", 0)
    /\ panda_pc' = "abs_set_seq1_enable"
    /\ UNCHANGED <<panda_initial_x, panda_exc>>
    /\ UNCHANGED notPanda

\* line 144
panda_abs_set_seq1_enable ==
    /\ panda_pc = "abs_set_seq1_enable"
    /\ AbsSet("seq1_enable", 1)
    /\ panda_pc' = "abs_set_pulse1_enable"
    /\ UNCHANGED <<panda_initial_x, panda_exc>>
    /\ UNCHANGED notPanda

\* line 145
panda_abs_set_pulse1_enable ==
    /\ panda_pc = "abs_set_pulse1_enable"
    /\ AbsSet("pulse1_enable", 1)
    /\ panda_pc' = "wait_arm_panda_gridscan"
    /\ UNCHANGED <<panda_initial_x, panda_exc>>
    /\ UNCHANGED notPanda

\* line 146
panda_wait_arm_panda_gridscan ==
    /\ panda_pc = "wait_arm_panda_gridscan"
    /\ Wait("arm_panda_gridscan", TRUE, "wait_group")
    /\ UNCHANGED <<panda_initial_x, panda_status, panda_log>>
    /\ UNCHANGED notPanda

\* lines 147-148, with wait=True (line 127); the function returns
panda_wait_group ==
    /\ panda_pc = "wait_group"
    /\ Wait("arm_panda_gridscan", TRUE, "returned")
    /\ UNCHANGED <<panda_initial_x, panda_status, panda_log>>
    /\ UNCHANGED notPanda

\* disarm_panda_for_gridscan (lines 151-160): the three sets to ZERO in its
\* group, the wait on the group and, when wait is given, the second wait;
\* the plan returns
disarm_panda_for_gridscan ==
    /\ \/ \E k \in DOMAIN DisarmSets :
             /\ panda_pc = DisarmAt[k]
             /\ panda_status' = [panda_status EXCEPT ![DisarmSets[k]] = "pending"]
             /\ panda_log' = Append(panda_log, PandaSet(DisarmSignals[k], 0))
             /\ panda_pc' = DisarmAt[k + 1]
             /\ UNCHANGED panda_exc
       \/ /\ panda_pc = "disarm_wait"
          /\ \E wait \in BOOLEAN :
                Wait("disarm_panda_gridscan", TRUE,
                     IF wait THEN "disarm_wait_group" ELSE "disarmed")
          /\ UNCHANGED <<panda_status, panda_log>>
       \/ /\ panda_pc = "disarm_wait_group"
          /\ Wait("disarm_panda_gridscan", TRUE, "disarmed")
          /\ UNCHANGED <<panda_status, panda_log>>
    /\ UNCHANGED panda_initial_x
    /\ UNCHANGED notPanda

\* A set that was started completes, or fails.
panda_set_finishes ==
    /\ \E s \in PandaSignals, outcome \in {"done", "failed"} :
          /\ panda_status[s] = "pending"
          /\ panda_status' = [panda_status EXCEPT ![s] = outcome]
    /\ UNCHANGED <<panda_pc, panda_initial_x, panda_log, panda_exc>>
    /\ UNCHANGED notPanda

\* A message fails at once, or the abort is raised at it.
panda_message_raises ==
    /\ panda_pc \notin {"unused", "returned", "disarmed", "raised"}
    /\ \E fault \in PandaFaults : panda_exc' = Some(fault)
    /\ panda_pc' = "raised"
    /\ UNCHANGED <<panda_initial_x, panda_status, panda_log>>
    /\ UNCHANGED notPanda

PandaNext ==
    \/ panda_load_device
    \/ panda_abs_set_inenc1_setp
    \/ panda_wait_inenc1_setp
    \/ panda_abs_set_seq1_table
    \/ panda_abs_set_seq1_enable
    \/ panda_abs_set_pulse1_enable
    \/ panda_wait_arm_panda_gridscan
    \/ panda_wait_group
    \/ disarm_panda_for_gridscan
    \/ panda_set_finishes
    \/ panda_message_raises

(***************************************************************************)
(*                            ISPYB RECORDER                               *)
(* BaseISPyBCallback, one instance, fed a stream of documents.  Each       *)
(* action is the delivery of one document (or one call of a method) and    *)
(* runs the whole handler; rec_exc is the exception that left it.          *)
(***************************************************************************)

\* ---- bound ----
\* Documents delivered (and methods called) in one behaviour.
MaxDocs == 4

\* ---- program constants ----
ISPYB_HARDWARE_READ_PLAN == "ispyb_reading_hardware"
ISPYB_TRANSMISSION_FLUX_READ_PLAN == "ispyb_update_transmission_flux"

\* ---- inputs ----
RunUids == {"run1", "run2"}
\* Every descriptor has a uid of its own; the name it carries is the name given
\* by bps.create (read_hardware_for_setup.py, lines 25-27 and 39), or another.
DescriptorName ==
    [d \in {"123abc", "abc123", "other"} |->
        CASE d = "123abc" -> ISPYB_HARDWARE_READ_PLAN
          [] d = "abc123" -> ISPYB_TRANSMISSION_FLUX_READ_PLAN
          [] OTHER -> "oav_snapshot"]
DescriptorUids == DOMAIN DescriptorName
\* What a call of the ISPyB store does: it returns, or it raises.
StoreOutcomes == {"ok", "ISPyBError"}
AppendOutcomes == {"ok", "TypeError", "ISPyBError"}
\* What begin_deposition returns.
NewIspybIds == [data_collection_ids |-> <<1, 2>>, data_collection_group_id |-> 4]

\* self.ispyb: the base class only annotates it (line 36), so it is unset
\* until a subclass or a test sets it, to the store or to None.
IspybStates == {"unset", "none", "StoreInIspyb"}

\* The parameters before any reading is stored in them.
EmptyParams == [hardware_read |-> FALSE, transmission_flux_read |-> FALSE]

\* A call of the ISPyB store made while document number doc was handled.
StoreCall(op, outcome, doc) == [op |-> op, outcome |-> outcome, doc |-> doc]

CallsOf(calls, op) == SelectSeq(calls, LAMBDA c : c.op = op)

RecIdle ==
    /\ rec_docs = 0
    /\ rec_last = [kind |-> "none", uid |-> ""]
    /\ rec_stream = <<>>
    /\ rec_params = None
    /\ rec_ispyb = "unset"
    /\ rec_descriptors = {}
    /\ rec_uid_to_finalize_on = None
    /\ rec_ispyb_ids = None
    /\ rec_calls = <<>>
    /\ rec_exc = "none"
    /\ rec_starts_seen = {}
    /\ rec_events_seen = {}

\* lines 28-45: __init__.  The base class leaves self.params None and self.ispyb
\* unset; a subclass, as the docstring (lines 29-31) asks, is constructed with
\* its parameters and sets self.ispyb; a test sets self.ispyb on a recorder
\* that holds no parameters.
RecInit ==
    /\ rec_docs = 0
    /\ rec_last = [kind |-> "none", uid |-> ""]
    /\ rec_stream = <<>>
    /\ rec_params \in {None, Some(EmptyParams)}
    /\ rec_ispyb \in IspybStates
    /\ rec_descriptors = {}
    /\ rec_uid_to_finalize_on = None
    /\ rec_ispyb_ids = None
    /\ rec_calls = <<>>
    /\ rec_exc = "none"
    /\ rec_starts_seen = {}
    /\ rec_events_seen = {}

\* One more document is delivered: the handler starts with no exception.
Deliver(kind, uid) ==
    /\ rec_docs < MaxDocs
    /\ rec_docs' = rec_docs + 1
    /\ rec_last' = [kind |-> kind, uid |-> uid]
    /\ rec_stream' = Append(rec_stream, [kind |-> kind, uid |-> uid])

\* mutant: every start document, a nested run's too, names the run to finalise on
MutStartAlwaysNamesRunToFinalize ==
    \E uid \in RunUids :
        /\ Deliver("start", uid)
        /\ rec_uid_to_finalize_on' = Some(uid)
        /\ rec_starts_seen' = rec_starts_seen \cup {uid}
        /\ rec_exc' = "none"
        /\ UNCHANGED <<rec_params, rec_descriptors, rec_ispyb_ids, rec_calls,
                       rec_events_seen, rec_ispyb>>
        /\ UNCHANGED notRec

\* lines 47-49
activity_gated_start ==
    \E uid \in RunUids :
        /\ Deliver("start", uid)
        /\ rec_uid_to_finalize_on' =
              IF rec_uid_to_finalize_on = None THEN Some(uid) ELSE rec_uid_to_finalize_on
        /\ rec_starts_seen' = rec_starts_seen \cup {uid}
        /\ rec_exc' = "none"
        /\ UNCHANGED <<rec_params, rec_descriptors, rec_ispyb_ids, rec_calls,
                       rec_events_seen, rec_ispyb>>
        /\ UNCHANGED notRec

\* lines 51-52
activity_gated_descriptor ==
    \E uid \in DescriptorUids :
        /\ Deliver("descriptor", uid)
        /\ rec_descriptors' = rec_descriptors \cup {uid}
        /\ rec_exc' = "none"
        /\ UNCHANGED <<rec_params, rec_uid_to_finalize_on, rec_ispyb_ids, rec_calls,
                       rec_starts_seen, rec_events_seen, rec_ispyb>>
        /\ UNCHANGED notRec

\* lines 58-59: what the asserts of the event handler raise.  Reading
\* self.ispyb while it is unset raises AttributeError before the assert.
EventAssertsRaise(ispyb, params) ==
    IF ispyb = "unset" THEN "AttributeError"
    ELSE IF ispyb = "none" \/ params = None THEN "AssertionError"
    ELSE "none"

\* lines 92-94 and 110: what assert isinstance(self.ispyb, StoreInIspyb)
\* raises; self.params is not looked at.
IspybAssertRaises(ispyb) ==
    IF ispyb = "unset" THEN "AttributeError"
    ELSE IF ispyb # "StoreInIspyb" THEN "AssertionError"
    ELSE "none"

\* lines 60-62: self.descriptors[doc["descriptor"]] finds the descriptor
DescriptorKnown(descriptors, uid) == uid \in descriptors

\* lines 63-75 and 77-83: the readings of the event are stored in the parameters
StoreReadings(params, name) ==
    [hardware_read |-> params.hardware_read \/ name = ISPYB_HARDWARE_READ_PLAN,
     transmission_flux_read |->
        params.transmission_flux_read \/ name = ISPYB_TRANSMISSION_FLUX_READ_PLAN]

\* line 77: the event after which the deposition is begun
BeginsDeposition(name) == name = ISPYB_TRANSMISSION_FLUX_READ_PLAN

\* lines 54-87
activity_gated_event ==
    \E uid \in DescriptorUids, outcome \in StoreOutcomes :
        /\ Deliver("event", uid)
        /\ rec_events_seen' = rec_events_seen \cup {DescriptorName[uid]}
        /\ UNCHANGED <<rec_descriptors, rec_uid_to_finalize_on, rec_starts_seen,
                       rec_ispyb>>
        /\ UNCHANGED notRec
        /\ IF EventAssertsRaise(rec_ispyb, rec_params) # "none" THEN
              /\ rec_exc' = EventAssertsRaise(rec_ispyb, rec_params)
              /\ outcome = "ok"
              /\ UNCHANGED <<rec_params, rec_ispyb_ids, rec_calls>>
           ELSE IF ~DescriptorKnown(rec_descriptors, uid) THEN
              /\ rec_exc' = "KeyError"
              /\ outcome = "ok"
              /\ UNCHANGED <<rec_params, rec_ispyb_ids, rec_calls>>
           ELSE
              /\ rec_params' = Some(StoreReadings(Val(rec_params), DescriptorName[uid]))
              /\ IF BeginsDeposition(DescriptorName[uid]) THEN
                    /\ rec_calls' =
                          Append(rec_calls, StoreCall("begin_deposition", outcome, rec_docs'))
                    /\ rec_ispyb_ids' =
                          IF outcome = "ok" THEN Some(NewIspybIds) ELSE rec_ispyb_ids
                    /\ rec_exc' = IF outcome = "ok" THEN "none" ELSE outcome
                 ELSE
                    /\ outcome = "ok"
                    /\ rec_exc' = "none"
                    /\ UNCHANGED <<rec_ispyb_ids, rec_calls>>

\* lines 102-107: the exceptions of end_deposition that leave the handler
EndDepositionRaises(outcome) == FALSE

\* lines 89-107: BaseISPyBCallback.activity_gated_stop, for document number doc
activity_gated_stop(outcome, doc) ==
    IF IspybAssertRaises(rec_ispyb) # "none" THEN
        /\ outcome = "ok"
        /\ rec_exc' = IspybAssertRaises(rec_ispyb)
        /\ UNCHANGED rec_calls
    ELSE
        /\ rec_calls' = Append(rec_calls, StoreCall("end_deposition", outcome, doc))
        /\ rec_exc' = IF EndDepositionRaises(outcome) THEN outcome ELSE "none"

\* mutant: every stop document is taken for the one to finalise on
MutStopForAnyRun(run_uid, finalize_on) == TRUE

\* The check the docstring of activity_gated_stop (lines 90-91) leaves to the
\* recorder's own stop handler: the stop document is the one of the run the
\* recorder finalises on.
StopIsForRunToFinalize(run_uid, finalize_on) ==
    finalize_on # None /\ run_uid = Val(finalize_on)

\* The recorder's stop handler: activity_gated_stop behind that check.
stop ==
    \E uid \in RunUids, outcome \in StoreOutcomes :
        /\ Deliver("stop", uid)
        /\ UNCHANGED <<rec_params, rec_descriptors, rec_uid_to_finalize_on, rec_ispyb_ids,
                       rec_starts_seen, rec_events_seen, rec_ispyb>>
        /\ UNCHANGED notRec
        /\ IF StopIsForRunToFinalize(uid, rec_uid_to_finalize_on) THEN
              activity_gated_stop(outcome, rec_docs')
           ELSE
              /\ outcome = "ok"
              /\ rec_exc' = "none"
              /\ UNCHANGED rec_calls

\* lines 113-116: the exceptions of append_to_comment that are logged, not raised
AppendExceptionCaught(outcome) == outcome = "TypeError"

\* lines 109-116
_append_to_comment ==
    \E outcome \in AppendOutcomes :
        /\ Deliver("append_to_comment", "")
        /\ UNCHANGED <<rec_params, rec_descriptors, rec_uid_to_finalize_on, rec_ispyb_ids,
                       rec_starts_seen, rec_events_seen, rec_ispyb>>
        /\ UNCHANGED notRec
        /\ IF IspybAssertRaises(rec_ispyb) # "none" THEN
              /\ outcome = "ok"
              /\ rec_exc' = IspybAssertRaises(rec_ispyb)
              /\ UNCHANGED rec_calls
           ELSE
              /\ rec_calls' =
                    Append(rec_calls, StoreCall("append_to_comment", outcome, rec_docs'))
              /\ rec_exc' =
                    IF outcome = "ok" \/ AppendExceptionCaught(outcome) THEN "none"
                    ELSE outcome

RecNext ==
    \/ activity_gated_start
    \/ activity_gated_descriptor
    \/ activity_gated_event
    \/ stop
    \/ _append_to_comment

(***************************************************************************)
(*                            SPECIFICATIONS                               *)
(***************************************************************************)

InitGate == GateInit /\ UdcIdle /\ PlanIdle /\ RecIdle /\ ZocIdle /\ FlyIdle /\ RunIdle /\ DepIdle /\ FastIdle /\ FlatIdle /\ DetIdle /\ PandaIdle

SpecGate == InitGate /\ [][GateNext]_vars

\* The plan's scheduler (the RunEngine) keeps running the gate's next message.
SpecGateFair == SpecGate /\ WF_vars(GateNext)

InitUdc == UdcInit /\ GateIdle /\ PlanIdle /\ RecIdle /\ ZocIdle /\ FlyIdle /\ RunIdle /\ DepIdle /\ FastIdle /\ FlatIdle /\ DetIdle /\ PandaIdle

SpecUdc == InitUdc /\ [][UdcNext]_vars

InitPlan == PlanInit /\ GateIdle /\ UdcIdle /\ RecIdle /\ ZocIdle /\ FlyIdle /\ RunIdle /\ DepIdle /\ FastIdle /\ FlatIdle /\ DetIdle /\ PandaIdle

SpecPlan == InitPlan /\ [][PlanNext]_vars

InitRec == RecInit /\ GateIdle /\ UdcIdle /\ PlanIdle /\ ZocIdle /\ FlyIdle /\ RunIdle /\ DepIdle /\ FastIdle /\ FlatIdle /\ DetIdle /\ PandaIdle

SpecRec == InitRec /\ [][RecNext]_vars

InitZoc == ZocInit /\ GateIdle /\ UdcIdle /\ PlanIdle /\ RecIdle /\ FlyIdle /\ RunIdle /\ DepIdle /\ FastIdle /\ FlatIdle /\ DetIdle /\ PandaIdle

SpecZoc == InitZoc /\ [][ZocNext]_vars

InitFly == FlyInit /\ GateIdle /\ UdcIdle /\ PlanIdle /\ RecIdle /\ ZocIdle /\ RunIdle /\ DepIdle /\ FastIdle /\ FlatIdle /\ DetIdle /\ PandaIdle

SpecFly == InitFly /\ [][FlyNext]_vars

InitRun == RunInit /\ GateIdle /\ UdcIdle /\ PlanIdle /\ RecIdle /\ ZocIdle /\ FlyIdle /\ DepIdle /\ FastIdle /\ FlatIdle /\ DetIdle /\ PandaIdle

SpecRun == InitRun /\ [][RunNext]_vars

InitDep == DepInit /\ GateIdle /\ UdcIdle /\ PlanIdle /\ RecIdle /\ ZocIdle /\ FlyIdle /\ RunIdle /\ FastIdle /\ FlatIdle /\ DetIdle /\ PandaIdle

SpecDep == InitDep /\ [][DepNext]_vars

InitFast == FastInit /\ GateIdle /\ UdcIdle /\ PlanIdle /\ RecIdle /\ ZocIdle /\ FlyIdle /\ RunIdle /\ DepIdle /\ FlatIdle /\ DetIdle /\ PandaIdle

SpecFast == InitFast /\ [][FastNext]_vars

InitFlat == FlatInit /\ GateIdle /\ UdcIdle /\ PlanIdle /\ RecIdle /\ ZocIdle /\ FlyIdle /\ RunIdle /\ DepIdle /\ FastIdle /\ DetIdle /\ PandaIdle

SpecFlat == InitFlat /\ [][FlatNext]_vars

InitDet == DetInit /\ GateIdle /\ UdcIdle /\ PlanIdle /\ RecIdle /\ ZocIdle /\ FlyIdle /\ RunIdle /\ DepIdle /\ FastIdle /\ FlatIdle /\ PandaIdle

SpecDet == InitDet /\ [][DetNext]_vars

InitPanda == PandaInit /\ GateIdle /\ UdcIdle /\ PlanIdle /\ RecIdle /\ ZocIdle /\ FlyIdle /\ RunIdle /\ DepIdle /\ FastIdle /\ FlatIdle /\ DetIdle

SpecPanda == InitPanda /\ [][PandaNext]_vars

(***************************************************************************)
(*                   PROPERTIES OF THE GRID-SCAN PLAN                      *)
(***************************************************************************)

\* How often the tidy-up step has been invoked in this execution.
TidyCount == Count(plan_log, "set_zebra_shutter_to_manual")

\* The execution has ended: the plan returned, or its exception reached the caller.
PlanEnded == plan_pc \in {"returned", "raised"}

\* C1: in every execution of the plan get_plan returns, the tidy-up step
\* (set_zebra_shutter_to_manual) is invoked exactly once, whether
\* run_gridscan_and_move finishes normally or raises at any point: never
\* before the plan's body has been left, once when the execution has ended,
\* and an execution that raised ends with its exception, one that did not
\* ends by returning.
C1_TidyExactlyOnce ==
    /\ TidyCount = IF PlanEnded THEN 1 ELSE 0
    /\ PlanEnded <=> (plan_stack = <<>> /\ plan_pc # "run_gridscan_and_move_and_tidy")
    /\ plan_pc = "returned" => plan_exc = "none"
    /\ plan_pc = "raised" => plan_exc # "none"

\* An execution in which the scan's completion failed, inside the staged
\* detector and three open runs, has ended with one tidy-up.
C1_Witness ==
    /\ plan_pc = "raised"
    /\ plan_exc = "FailedStatus"
    /\ Count(plan_log, "kickoff") = 1
    /\ Count(plan_log, "complete") = 1
    /\ plan_fault = Some([at |-> "do_fgs_complete_wait", exc |-> "FailedStatus"])
    /\ Count(plan_log, "unstage") = 1
    /\ TidyCount = 1

\* The hardware has reported the scan as invalid at every check of
\* wait_for_fgs_valid: the loop has run out.
ValidationFailed == fgs_checks >= times_to_check

\* The RunEngine was aborted while the plan was leaving its decorators: a
\* second exception was raised into the plan, at an unsubscribe message.
AbortedWhileLeaving ==
    \E i \in DOMAIN plan_fault : plan_fault[i].at = "unsubscribe"

\* C2: if validation of the scan parameters fails (the hardware reports the
\* scan as invalid at every check), wait_for_fgs_valid raises
\* WarningException, zocalo's run_start is never called in that execution,
\* the tidy-up is still invoked exactly once, and the WarningException is
\* the exception that reaches the caller (in an execution that is not
\* aborted on its way out).
C2_InvalidScanNoSubmitTidyOnce ==
    ValidationFailed =>
        /\ Count(plan_log, "run_start") = 0
        /\ plan_pc \in {"wait_for_fgs_valid", "raised"}
        /\ plan_exc = "none" => plan_pc = "wait_for_fgs_valid" /\ Len(plan_stack) = 5
        /\ plan_pc = "raised" => plan_stack = <<>>
        /\ TidyCount = IF plan_pc = "raised" THEN 1 ELSE 0
        /\ ~AbortedWhileLeaving =>
              /\ plan_exc \in {"none", "WarningException"}
              /\ plan_pc = "raised" => plan_exc = "WarningException"

\* Every check read the scan as invalid, the ISPyB deposition was made, and
\* the WarningException has reached the caller after one tidy-up.
C2_Witness ==
    /\ ValidationFailed
    /\ plan_pc = "raised"
    /\ plan_exc = "WarningException"
    /\ Count(plan_log, "check") = times_to_check
    /\ Count(plan_log, "store_grid_scan") = 1
    /\ Count(plan_log, "run_start") = 0
    /\ Count(plan_log, "close_run_fail") = 2
    /\ Count(plan_log, "unsubscribe") = 3
    /\ TidyCount = 1

\* The positions in a log of the messages with this op and argument.
PositionsOfOp(log, op, arg) == {i \in DOMAIN log : log[i].op = op /\ log[i].arg = arg}

\* The sets of the k-th sample axis (x, y, z) the plan has commanded.
SampleSets(k) == SelectSeq(plan_log, LAMBDA m : m.op = "set" /\ m.arg = SampleAxes[k])

\* The sample move has been commanded, once: one set of every axis.
SampleMovedOnce == \A k \in DOMAIN SampleAxes : Len(SampleSets(k)) = 1

\* The service timed out or reported an error while the plan waited.
ZocaloFailed == zocalo_answer \in {"timeout", "error"}

\* C17: if the analysis service times out or reports an error while the plan
\* waits, the rendezvous returns the fallback (pre-scan) position with no
\* bounding box instead of raising, and the final sample move is still
\* commanded, to that position: no aperture is set, every sample move goes to
\* the pre-scan position, and a plan that returns has made the move.
C17_ZocaloFailureMovesToFallback ==
    ZocaloFailed =>
        /\ xray_centre = initial_xyz
        /\ bbox_size = None
        /\ Count(plan_log, "set_aperture") = 0
        /\ \A k \in DOMAIN SampleAxes : \A i \in DOMAIN SampleSets(k) :
              SampleSets(k)[i].n = Val(initial_xyz)[k]
        /\ plan_pc = "returned" => SampleMovedOnce

C17_Witness ==
    /\ zocalo_answer = "timeout"
    /\ initial_xyz = Some(<<1, 2, 3>>)
    /\ plan_pc = "returned"
    /\ SampleMovedOnce
    /\ \A k \in DOMAIN SampleAxes : SampleSets(k)[1].n = k

\* C19: the wait for the analysis result is a cooperative suspension point:
\* an abort requested while the result is pending makes the plan stop
\* waiting, so the rendezvous of an aborted plan never runs on to the
\* service's answer.
C19_AbortStopsTheWait ==
    abort_requested => zocalo_answer = "none"

\* The apertures the plan has set.
AperturesSet == SelectSeq(plan_log, LAMBDA m : m.op = "set_aperture")

\* C20: the aperture selected for a bounding box depends only on its x size:
\* x below 2 selects MEDIUM_APERTURE, x of 2 or more LARGE_APERTURE, whatever
\* y and z are; so [1,1,1] selects the smaller and [3,1,1] the larger.
C20_ApertureFromXSizeOnly ==
    \A i \in DOMAIN AperturesSet :
        /\ bbox_size # None
        /\ Val(bbox_size)[1] < 2 => AperturesSet[i].arg = "MEDIUM_APERTURE"
        /\ Val(bbox_size)[1] >= 2 => AperturesSet[i].arg = "LARGE_APERTURE"
        /\ Val(bbox_size) = <<1, 1, 1>> => AperturesSet[i].arg = "MEDIUM_APERTURE"
        /\ Val(bbox_size) = <<3, 1, 1>> => AperturesSet[i].arg = "LARGE_APERTURE"
        /\ \A b \in BboxSizes :
              b[1] = Val(bbox_size)[1] => SelectedAperture(b) = AperturesSet[i].arg

C20_Witness ==
    /\ bbox_size = Some(<<1, 3, 3>>)
    /\ Len(AperturesSet) = 1
    /\ AperturesSet[1].arg = "MEDIUM_APERTURE"
    /\ plan_pc = "returned"

\* C21 as claimed: the aperture change is commanded only if the selected
\* aperture differs from the one in place; when they are equal no aperture set
\* command is issued.
C21_ApertureSetOnlyWhenDifferent ==
    aperture_before_set # None => Val(aperture_before_set) # aperture_in_place

\* C21: the aperture change is commanded whenever the rendezvous returns a
\* bounding box, whether or not the aperture selected differs from the one in
\* place; a plan that returns has set the aperture once if a bounding box came
\* back and not at all if none did.
C21_ApertureSetWheneverBbox ==
    /\ aperture_before_set # None =>
          /\ bbox_size # None
          /\ aperture_in_place = SelectedAperture(Val(bbox_size))
          /\ Len(AperturesSet) = 1
    /\ plan_pc = "returned" => (Len(AperturesSet) = 1 <=> bbox_size # None)

C21_Witness ==
    /\ plan_pc = "returned"
    /\ bbox_size = Some(<<3, 1, 1>>)
    /\ aperture_before_set = Some("LARGE_APERTURE")
    /\ aperture_in_place = "LARGE_APERTURE"
    /\ Len(AperturesSet) = 1

\* C37: when the rendezvous returns no bounding box (None) no aperture change
\* is commanded; whether or not a bounding box came back, the final sample
\* move is commanded after the rendezvous has returned, to the centre it
\* returned, never twice, and exactly once by a plan that returns.
C37_NoBboxNoApertureOneMoveToCentre ==
    /\ (zocalo_answer # "none" /\ bbox_size = None) => Len(AperturesSet) = 0
    /\ \A k \in DOMAIN SampleAxes :
          /\ Len(SampleSets(k)) <= 1
          /\ \A i \in PositionsOfOp(plan_log, "set", SampleAxes[k]) :
                /\ zocalo_answer # "none"
                /\ xray_centre # None
                /\ plan_log[i].n = Val(xray_centre)[k]
                /\ \E w \in PositionsOfOp(plan_log, "wait_for_results", "call") : w < i
    /\ plan_pc = "returned" => SampleMovedOnce

\* The service found no diffraction: the plan set no aperture, moved the
\* sample once, back to where it was before the scan, and returned.
C37_Witness ==
    /\ plan_pc = "returned"
    /\ zocalo_answer = "no_diffraction"
    /\ bbox_size = None
    /\ initial_xyz = Some(<<1, 2, 3>>)
    /\ Len(AperturesSet) = 0
    /\ SampleMovedOnce
    /\ \A k \in DOMAIN SampleAxes : SampleSets(k)[1].n = k

\* The statements of the final sample move (lines 285-288, move_xyz).
FinalMove == {"move_xyz"} \cup {MoveXyzAt[k] : k \in 1..(Len(SampleAxes) + 1)}

\* A fault was raised into the plan during the final sample move.
FaultInFinalMove == plan_fault # None /\ Val(plan_fault).at \in FinalMove

\* C23: a fault raised during the final sample move propagates to the caller
\* of the plan unchanged, and reaches the caller only after the tidy-up has
\* completed: the exception in flight stays the one raised (in an execution
\* that is not aborted on its way out), the plan never returns normally, and
\* when the caller has it the tidy-up has run once and was the last thing
\* the plan did.
C23_FinalMoveFaultAfterTidy ==
    FaultInFinalMove =>
        /\ ~AbortedWhileLeaving => plan_exc = Val(plan_fault).exc
        /\ plan_pc # "returned"
        /\ plan_pc = "raised" =>
              /\ TidyCount = 1
              /\ plan_log[Len(plan_log)] = TidyMsg
              /\ plan_stack = <<>>

\* The move failed at its wait, with the three axes set.
C23_Witness ==
    /\ plan_pc = "raised"
    /\ plan_fault = Some([at |-> "move_xyz_mv_wait", exc |-> "FailedStatus"])
    /\ SampleMovedOnce
    /\ plan_exc = "FailedStatus"
    /\ zocalo_answer = "diffraction"
    /\ TidyCount = 1

\* The positions in the log of the messages with this op.
PositionsOf(op) == {i \in DOMAIN plan_log : plan_log[i].op = op}

\* C24: in every grid-scan execution the detector is disarmed (unstaged)
\* before any run_end notification for the scan goes to the analysis service:
\* every run_end in the log has the detector's unstage before it.
C24_UnstageBeforeRunEnd ==
    \A i \in PositionsOf("run_end") : \E j \in PositionsOf("unstage") : j < i

C24_Witness ==
    /\ plan_pc = "returned"
    /\ Count(plan_log, "run_end") = 2
    /\ Count(plan_log, "unstage") = 1
    /\ Count(plan_log, "kickoff") = 1

\* The scan's completion failed.
CompletionFailed ==
    plan_fault # None /\ Val(plan_fault).at \in {"do_fgs_complete", "do_fgs_complete_wait"}

\* C25: in every execution of run_gridscan the detector is staged exactly once
\* before the scan is kicked off and unstaged exactly once afterwards; if the
\* scan's completion fails the detector is still unstaged and the exception
\* the caller receives is the completion failure, not one raised while
\* unstaging.
C25_StagedOnceAndCompletionFailureKept ==
    /\ \A i \in PositionsOf("kickoff") :
          /\ Count(plan_log, "stage") = 1
          /\ \E j \in PositionsOf("stage") : j < i
          /\ \A j \in PositionsOf("unstage") : i < j
    /\ Count(plan_log, "unstage") <= 1
    /\ (PlanEnded /\ Count(plan_log, "stage") = 1) => Count(plan_log, "unstage") = 1
    /\ (CompletionFailed /\ plan_pc = "raised") =>
          /\ Count(plan_log, "unstage") = 1
          /\ plan_exc = Val(plan_fault).exc

(***************************************************************************)
(*                PROPERTIES OF THE DEFAULT-STATE SEQUENCE                 *)
(***************************************************************************)

BsAxes == {"bs_x", "bs_y", "bs_z"}

\* Some set of `axis` has been issued in this run.
Commanded(axis) == \E i \in 1..Len(udc_log) : udc_log[i].op = "set" /\ udc_log[i].axis = axis
\* The set of `axis` to `value` has been issued in this run.
CommandedTo(axis, value) == \E i \in 1..Len(udc_log) : udc_log[i] = UdcSet(axis, value)
\* The completion of a move of `axis` has been observed in this run.
Completed(axis) == \E m \in udc_done : m[1] = axis

\* C3 as stated: the run that follows a completed run issues no move command.
C3_SecondRunIssuesNoMoves ==
    udc_run >= 2 => SetsOf(udc_log) = <<>>

\* C3 amended: in a run that follows a completed run only the beamstop batch is
\* always skipped by its guard; the unguarded batches are commanded again, and
\* so is the scintillator batch unless its guard (y < 0.016 and z < 0.1) holds,
\* which it does not at the batch's own target z = 0.1.  Every move of that run
\* is to a position the sequence already reached, and the run ends with every
\* axis where it started.
C3_SecondRunSkipsOnlyBeamstop ==
    udc_run >= 2 =>
        /\ \A a \in BsAxes : ~Commanded(a)
        /\ udc_pc = "done" =>
              /\ pos = udc_pos0
              /\ SetsOf(udc_log) =
                    (IF ScinSafe(udc_pos0["scin_y"], udc_pos0["scin_z"]) THEN <<>>
                     ELSE SetMsgs(Batch55 \o Batch56))
                    \o SetMsgs(Batch120 \o Batch121 \o Batch122 \o Batch124
                               \o Batch125 \o Batch126)

\* C3 witness: a second run has finished after a first run that moved both the
\* scintillator and the beamstop.
C3_Witness ==
    /\ udc_run = 2
    /\ udc_pc = "done"
    /\ udc_pos0["scin_z"] = 100
    /\ udc_pos0["bs_z"] = 30000
    /\ CommandedTo("scin_z", 100)

\* The ordering constraints of the docstring: <<earlier axis, later axis>>.
OrderedPairs ==
    {<<"scin_y", "scin_z">>, <<"bs_z", "bs_x">>, <<"bs_z", "bs_y">>,
     <<"mapt_z", "mapt_x">>, <<"mapt_z", "mapt_y">>}
    \cup {<<"sgon_chi", b>> : b \in {"sgon_x", "sgon_y", "sgon_z", "sgon_phi",
                                      "sgon_omega", "gonp_x", "gonp_z"}}

\* C4 as stated: for every ordering-constrained pair, the later axis is never
\* commanded before the completion of the earlier axis's move was observed.
C4_LaterAxisNeverBeforeEarlier ==
    \A p \in OrderedPairs : Commanded(p[2]) => Completed(p[1])

\* C4 amended: the same for every pair but (mini-aperture z, mini-aperture x),
\* where it holds of the x move to the robot-load position 2.564 only:
\* make_scin_safe commands mini-aperture x to its clearance position -4.91
\* before any mini-aperture z move.
C4_LaterAxisAfterEarlierButMaptClearance ==
    /\ \A p \in OrderedPairs \ {<<"mapt_z", "mapt_x">>} :
          Commanded(p[2]) => Completed(p[1])
    /\ CommandedTo("mapt_x", 2564) => Completed("mapt_z")

\* C4 witness: a run from a configuration in which neither guard held has
\* commanded the later axis of every pair.
C4_Witness ==
    /\ udc_run = 1
    /\ udc_pc = "done"
    /\ \A p \in OrderedPairs : Commanded(p[2])
    /\ CommandedTo("mapt_x", -4910)

\* Where in this run's log the set of `axis` to `value` was issued (0: nowhere).
IssuedAt(axis, value) ==
    IF CommandedTo(axis, value)
    THEN CHOOSE i \in 1..Len(udc_log) : udc_log[i] = UdcSet(axis, value)
    ELSE 0

\* C33: whenever the scintillator z (lateral) move is commanded, the moves of
\* scintillator y, mini-aperture x and scatterguard x to their clearance
\* positions were commanded earlier in the same run and each has completed;
\* the z move is in a batch of its own, never in one with any of those three.
C33_ScinZAfterClearance ==
    /\ Commanded("scin_z") =>
          \A i \in 1..Len(Batch55) :
             /\ Batch55[i] \in udc_done
             /\ IssuedAt(Batch55[i][1], Batch55[i][2]) > 0
             /\ IssuedAt(Batch55[i][1], Batch55[i][2]) < IssuedAt("scin_z", 100)
    /\ (\E m \in udc_group : m[1] = "scin_z") => udc_group = Range(Batch56)

\* The lateral move is under way: commanded, not yet complete.
C33_Witness ==
    /\ udc_run = 1
    /\ udc_group = {<<"scin_z", 100>>}
    /\ udc_pc = "wait56"
    /\ udc_pos0["scin_y"] = 40

\* C34: if a move of any batch of the default-state sequence fails, the run
\* ends there: no move is commanded in that run after the failure, so none of
\* any later batch.
C34_NoMoveAfterFailedMove ==
    /\ [](udc_exc = "FailedStatus" => udc_pc = "aborted" /\ udc_group # {})
    /\ [][udc_exc = "FailedStatus" => SetsOf(udc_log') = SetsOf(udc_log)]_vars

\* A move of the first batch failed after another of its moves had completed:
\* the run has ended without the lateral move or any later batch.
C34_Witness ==
    /\ udc_exc = "FailedStatus"
    /\ udc_pc = "aborted"
    /\ <<"scin_y", 15>> \in udc_done
    /\ <<"mapt_x", -4910>> \in udc_group
    /\ SetsOf(udc_log) = SetMsgs(Batch55)

\* Where in this run's log `axis` was first read (0: nowhere).
ReadAt(axis) ==
    IF \E i \in 1..Len(udc_log) : udc_log[i].op = "rd" /\ udc_log[i].axis = axis
    THEN CHOOSE i \in 1..Len(udc_log) :
            /\ udc_log[i].op = "rd" /\ udc_log[i].axis = axis
            /\ \A j \in 1..(i - 1) : ~(udc_log[j].op = "rd" /\ udc_log[j].axis = axis)
    ELSE 0

\* C35: in every run of the default-state sequence both pre-flight reads, the
\* cryo back-pressure and then the cryo temperature, have been made before
\* the first move command is issued.
C35_PreflightReadsBeforeFirstMove ==
    \A i \in 1..Len(udc_log) :
        udc_log[i].op = "set" =>
            /\ ReadAt("cryo_backpress") = 1
            /\ ReadAt("cryo_temp") > ReadAt("cryo_backpress")
            /\ ReadAt("cryo_temp") < i
            /\ cryo_backpressure # None
            /\ cryo_temp # None

\* The first move of a second run has been commanded, after that run's reads.
C35_Witness ==
    /\ udc_run = 2
    /\ Len(SetsOf(udc_log)) = 1
    /\ cryo_temp # None
    /\ ReadAt("cryo_temp") > 1

\* A pre-flight check of this run has failed: a value read was too high, or a
\* read of the two cryostream values failed.
PreflightFailed ==
    \/ cryo_backpressure # None /\ BackpressureTooHigh(Val(cryo_backpressure))
    \/ cryo_temp # None /\ TempTooHigh(Val(cryo_temp))
    \/ udc_exc = "ReadFailed" /\ cryo_temp = None

\* C5: if a pre-flight check fails, the sequence aborts and no move command is
\* issued in that run.
C5_FailedPreflightNoMoves ==
    PreflightFailed => SetsOf(udc_log) = <<>>

(***************************************************************************)
(*                      PROPERTIES OF THE TOP-UP GATE                      *)
(***************************************************************************)

\* The entry reads (lines 65-66) have been made.
GateEntryRead == gate_pc \notin {"idle", "rd_machine_mode", "rd_time_to_topup"}

\* Gating applies: allowed mode and not decay mode.
GatingEnabled ==
    /\ GateEntryRead
    /\ Val(machine_mode) \in ALLOWED_MODES
    /\ Val(time_to_topup) # DECAY_MODE_COUNTDOWN

tot_run_time == total_exposure_time + ops_time

\* wait_for_topup_complete has made its first read (the third start_countdown
\* read of the gate).
EnteredPolling == Len(StartReads(gate_log)) > 2

\* C6: when the start countdown read at entry is the decay sentinel (-1), the
\* gate yields no sleep at all and goes straight to its return, whatever the
\* machine mode, the exposure time and the overhead are.
C6_DecayModeNoSleep ==
    (GateEntryRead /\ Val(time_to_topup) = DECAY_MODE_COUNTDOWN)
        => /\ Sleeps(gate_log) = <<>>
           /\ gate_pc \in {"null", "returned"}

\* C6 witness: the gate has returned in decay mode, in an allowed mode, for a
\* run of non-zero length.
C6_Witness ==
    /\ gate_pc = "returned"
    /\ Val(time_to_topup) = DECAY_MODE_COUNTDOWN
    /\ Val(machine_mode) \in ALLOWED_MODES
    /\ tot_run_time > 0

\* C7: when the machine mode is not an allowed one, the gate yields no sleep
\* and makes no read after the two entry reads (no polling), also when a
\* top-up is in progress or would overlap the run.
C7_NotAllowedModeFailOpen ==
    (GateEntryRead /\ Val(machine_mode) \notin ALLOWED_MODES)
        => /\ Sleeps(gate_log) = <<>>
           /\ Len(StartReads(gate_log)) = 1
           /\ Len(SelectSeq(gate_log, LAMBDA m : m.op = "rd")) = 2
           /\ gate_pc \in {"null", "returned"}

\* C7 witness: returned in a mode that is not allowed while a top-up was in
\* progress (start countdown 0) and the run is longer than the countdown.
C7_Witness ==
    /\ gate_pc = "returned"
    /\ Val(machine_mode) \notin ALLOWED_MODES
    /\ Val(time_to_topup) = COUNTDOWN_DURING_TOPUP
    /\ tot_run_time > Val(time_to_topup)

\* C8 as stated: with gating enabled and total_exposure_time + ops_time <=
\* start countdown, the gate makes no non-zero sleep and never enters the
\* refill polling loop.
C8_PassNeverPolls ==
    (GatingEnabled /\ tot_run_time <= Val(time_to_topup))
        => /\ \A i \in 1..Len(Sleeps(gate_log)) : Sleeps(gate_log)[i].value = 0
           /\ gate_pc \notin {"wait_rd", "wait_sleep"}
           /\ ~EnteredPolling

\* C8 amended: with gating enabled and total_exposure_time + ops_time <= start
\* countdown, the gate's own sleep is of 0 seconds; it then re-reads the start
\* countdown, returns at once if that read is not 0, and enters the polling
\* loop exactly when that read is 0.
C8_PassSleepsZeroThenRechecks ==
    (GatingEnabled /\ tot_run_time <= Val(time_to_topup))
        => /\ gate_pc \notin {"rd_end_topup", "sleep"}
                => /\ time_to_wait = Some(0)
                   /\ Sleeps(gate_log)[1].value = 0
           /\ gate_pc \in {"wait_rd", "wait_sleep"} => check_start = Some(COUNTDOWN_DURING_TOPUP)
           /\ (gate_pc = "returned" /\ check_start # Some(COUNTDOWN_DURING_TOPUP))
                => /\ Len(Sleeps(gate_log)) = 1
                   /\ ~EnteredPolling
           /\ (gate_pc = "returned" /\ check_start = Some(COUNTDOWN_DURING_TOPUP))
                => EnteredPolling

\* C8 witness: the gate has returned on the pass branch with a non-zero end
\* countdown, without polling.
C8_Witness ==
    /\ gate_pc = "returned"
    /\ GatingEnabled
    /\ tot_run_time <= Val(time_to_topup)
    /\ Val(end_topup) > 0
    /\ check_start # Some(COUNTDOWN_DURING_TOPUP)

\* The messages of a gate that waits: the three entry reads, one sleep of the
\* end countdown, the re-read c of the start countdown and, if c is 0, k rounds
\* of (read 0, sleep 0.1 s) closed by one read of a value last.
WaitLog(mode, t, e, c, k, last) ==
    <<RdMsg("synchrotron_mode", mode), RdMsg("start_countdown", t),
      RdMsg("end_countdown", e), SleepMsg(Tenths(e)), RdMsg("start_countdown", c)>>
    \o (IF c = COUNTDOWN_DURING_TOPUP
        THEN [i \in 1..(2 * k) |->
                 IF i % 2 = 1 THEN RdMsg("start_countdown", COUNTDOWN_DURING_TOPUP)
                 ELSE SleepMsg(POLL_SLEEP_TENTHS)]
             \o <<RdMsg("start_countdown", last)>>
        ELSE <<>>)

\* C9: with gating enabled and total_exposure_time + ops_time > start
\* countdown, a gate that has returned has slept exactly once for the end
\* countdown read at entry, then re-read the start countdown and, if that was
\* 0, polled: each read of 0 followed by a 0.1 s sleep, until a read returned
\* a non-zero value, which is the last message before the return.
C9_WaitSleepsOnceThenPolls ==
    (gate_pc = "returned" /\ GatingEnabled /\ tot_run_time > Val(time_to_topup))
        => /\ gate_log = WaitLog(Val(machine_mode), Val(time_to_topup),
                                 Val(end_topup), Val(check_start),
                                 Len(PollSleeps(gate_log)),
                                 IF EnteredPolling THEN Val(start) ELSE 0)
           /\ check_start = Some(COUNTDOWN_DURING_TOPUP)
                => (EnteredPolling /\ start # Some(COUNTDOWN_DURING_TOPUP))
           /\ check_start # Some(COUNTDOWN_DURING_TOPUP) => ~EnteredPolling

\* C9 witness: a gate on the wait branch returned after polling twice, having
\* slept for a non-zero end countdown.
C9_Witness ==
    /\ gate_pc = "returned"
    /\ GatingEnabled
    /\ tot_run_time > Val(time_to_topup)
    /\ Val(end_topup) > 0
    /\ check_start = Some(COUNTDOWN_DURING_TOPUP)
    /\ Len(PollSleeps(gate_log)) = 2

\* C10: the gate never cancels or fails the operation: in every behaviour in
\* which the plan keeps being run (and the start countdown stops reading 0), the
\* gate ends in its normal return and stays there.
C10_GateEventuallyReturns == <>[](gate_pc = "returned")

\* C10 witness: a gate that returned after waiting and polling, and one that
\* returned without being applied, are both reached; this is the first.
C10_Witness ==
    /\ gate_pc = "returned"
    /\ Len(Sleeps(gate_log)) = 3
    /\ EnteredPolling

(***************************************************************************)
(*                   PROPERTIES OF THE ISPYB RECORDER                      *)
(***************************************************************************)

\* The calls of the ISPyB store made while the last document was handled.
CallsOfLastDocument == SelectSeq(rec_calls, LAMBDA c : c.doc = rec_docs)

\* C11: begin_deposition is invoked only after both pre-acquisition readings
\* have been observed in the document stream, an event of the hardware-read
\* descriptor and an event of the transmission/flux descriptor; never when
\* only one of the two kinds has been seen.
C11_BeginDepositionAfterBothReadings ==
    CallsOf(rec_calls, "begin_deposition") # <<>> =>
        {ISPYB_HARDWARE_READ_PLAN, ISPYB_TRANSMISSION_FLUX_READ_PLAN} \subseteq rec_events_seen

\* C12: a recorder (one that holds its parameters and its store) that receives
\* an event whose descriptor was never delivered ignores it: no exception
\* leaves the handler.
C12_UnknownDescriptorEventIgnored ==
    (/\ rec_last.kind = "event"
     /\ rec_last.uid \notin rec_descriptors
     /\ rec_ispyb = "StoreInIspyb"
     /\ rec_params # None) => rec_exc = "none"

\* C13: a recorder that receives a stop document for a run whose start
\* document it never saw does nothing: no exception leaves the handler and no
\* end_deposition call is made.
C13_StopOfUnseenRunIsNoOp ==
    (rec_last.kind = "stop" /\ rec_last.uid \notin rec_starts_seen) =>
        /\ rec_exc = "none"
        /\ CallsOfLastDocument = <<>>

\* A recorder that finalises on run1 and has begun its deposition has been
\* sent the stop document of run2, whose start it never saw.
C13_Witness ==
    /\ rec_last = [kind |-> "stop", uid |-> "run2"]
    /\ rec_starts_seen = {"run1"}
    /\ rec_uid_to_finalize_on = Some("run1")
    /\ rec_ispyb_ids # None

\* The numbers of the documents of one kind that name uid.
DocsOf(kind, uid) ==
    {d \in DOMAIN rec_stream : rec_stream[d] = [kind |-> kind, uid |-> uid]}

\* The run whose start document was delivered first.
FirstStarted ==
    LET starts == SelectSeq(rec_stream, LAMBDA doc : doc.kind = "start")
    IN  IF starts = <<>> THEN None ELSE Some(starts[1].uid)

\* The stream is one a plan emits: every run is stopped at most once, and
\* only after it was started.
StreamOfOnePlan ==
    \A uid \in RunUids :
        /\ Cardinality(DocsOf("stop", uid)) <= 1
        /\ \A d \in DocsOf("stop", uid) : \E s \in DocsOf("start", uid) : s < d

\* The positions in rec_calls of the calls of op.
CallIndices(op) == {i \in DOMAIN rec_calls : rec_calls[i].op = op}

\* C36: over the document stream of one plan, end_deposition is invoked at
\* most once after any begin_deposition, and every invocation is made while
\* the stop document of the run whose start was delivered first
\* (uid_to_finalize_on) is handled, never at the stop document of a nested run.
C36_EndDepositionOnceAtOutermostStop ==
    StreamOfOnePlan =>
        /\ rec_uid_to_finalize_on = FirstStarted
        /\ \A b \in CallIndices("begin_deposition") :
              Cardinality({e \in CallIndices("end_deposition") : e > b}) <= 1
        /\ \A e \in CallIndices("end_deposition") :
              /\ FirstStarted # None
              /\ rec_stream[rec_calls[e].doc] = [kind |-> "stop", uid |-> Val(FirstStarted)]

\* run1 was started, its deposition was begun at the transmission/flux event
\* and ended, once, at the stop document of run1.
C36_Witness ==
    /\ StreamOfOnePlan
    /\ FirstStarted = Some("run1")
    /\ rec_last = [kind |-> "stop", uid |-> "run1"]
    /\ \E b \in CallIndices("begin_deposition") :
          Cardinality({e \in CallIndices("end_deposition") : e > b}) = 1

\* C14: a failure of a metadata write (begin_deposition, end_deposition or
\* append_to_comment raising) is recovered inside the recorder: no exception
\* leaves the handler that made the call.
C14_StoreFailureNeverLeavesHandler ==
    (\E i \in DOMAIN CallsOfLastDocument : CallsOfLastDocument[i].outcome # "ok") =>
        rec_exc = "none"

(***************************************************************************)
(*                  PROPERTIES OF THE RESULT RENDEZVOUS                    *)
(***************************************************************************)

\* The last wait_for_results was for this group.
ReturnedFor(group) == zoc_returned # None /\ Val(zoc_returned).group = group

\* C15: when the result of a collection group is "no diffraction",
\* wait_for_results returns the supplied fallback position as the centre and
\* None as the bounding-box size, and exactly one comment is appended to the
\* group's record for that rendezvous.
C15_NoDiffractionFallbackOneComment ==
    \A g \in GroupIds :
        zoc_answer[g] = "no_diffraction" =>
            /\ zoc_comments[g] = <<"Found no diffraction.">>
            /\ ReturnedFor(g) =>
                  /\ Val(zoc_returned).result.centre = Val(zoc_fallback[g])
                  /\ Val(zoc_returned).result.bbox = None

C15_Witness ==
    /\ ReturnedFor(4)
    /\ zoc_answer[4] = "no_diffraction"
    /\ zoc_waits[4] = 1
    /\ Val(zoc_returned).result.centre = <<1, 2, 3>>

\* How often an id went to the analysis service.
TimesSent(id) == Len(SelectSeq(zoc_sent.sends, LAMBDA m : m = id))

\* The ids run_start was called with.
IdsRequested == {zoc_requested[i] : i \in 1..Len(zoc_requested)}

\* C16: submission is idempotent per collection id: over any sequence of
\* submissions each distinct id is sent to the analysis service at most once
\* (and once when it was submitted), also when a list of ids holds the same
\* id twice.
C16_EachIdSentAtMostOnce ==
    \A id \in IdsRequested : TimesSent(id) = 1

C16_Witness ==
    /\ Len(SelectSeq(zoc_requested, LAMBDA m : m = 1)) >= 3
    /\ zoc_requested[1] = 1
    /\ zoc_requested[2] = 1
    /\ TimesSent(1) = 1

\* C18: at most one outcome is ever attached to a collection group: after
\* the first result of a group every later rendezvous for the group returns
\* that same outcome, and the service is not contacted again.
C18_OneOutcomePerGroup ==
    \A g \in GroupIds :
        /\ zoc_fetches[g] <= 1
        /\ zoc_waits[g] >= 1 => zoc_fetches[g] = 1
        /\ ReturnedFor(g) => Val(zoc_returned).result = Val(zoc_first[g])

C18_Witness ==
    /\ zoc_waits[5] >= 2
    /\ ReturnedFor(5)
    /\ zoc_fetches[5] = 1
    /\ zoc_answer[5] = "diffraction"

(***************************************************************************)
(*              PROPERTIES OF THE FLYSCAN CENTRE AND COMMIT                *)
(***************************************************************************)

\* The stub offsets have been committed.
StubOffsetsCommitted == fly_stub_offsets_proc = 1

\* C22: the stub-offset (re-centre) commit is made if and only if the final
\* sample move completed and set_stub_offsets is enabled: a commit implies
\* both, a plan that returns has committed exactly when the option is on, and
\* a plan that raised (the move included) has not committed.
C22_StubOffsetsIffMovedAndEnabled ==
    /\ StubOffsetsCommitted =>
          /\ fly_set_stub_offsets
          /\ fly_centred_at = fly_centre
          /\ fly_centred_at # None
          /\ fly_exc = "none"
    /\ fly_pc = "returned" => (StubOffsetsCommitted <=> fly_set_stub_offsets)
    /\ fly_pc = "raised" => ~StubOffsetsCommitted

C22_Witness ==
    /\ fly_pc = "returned"
    /\ fly_set_stub_offsets
    /\ fly_centred_at = Some(<<0, 0, 0>>)
    /\ fly_bbox = None
    /\ StubOffsetsCommitted

(***************************************************************************)
(*                    PROPERTIES OF THE PLAN RUNNER                        *)
(***************************************************************************)

\* The request answered in this step, when the step answers one.
Answered(request) ==
    /\ Len(run_requests') = Len(run_requests) + 1
    /\ run_requests'[Len(run_requests')].request = request

LastResponse == run_requests[Len(run_requests)]

\* C26: only one plan runs at a time: a start request received while the
\* runner is busy with a plan (BUSY, or ABORTING it) is answered FAILED, and
\* it neither queues a second plan nor touches the status, the worker or the
\* plan in the run engine.
C26_StartWhileBusyFails ==
    [][(Answered("start") /\ run_status.status \in {"BUSY", "ABORTING"}) =>
          /\ run_requests'[Len(run_requests')].response = "FAILED"
          /\ UNCHANGED <<run_status, run_queue, run_worker, run_started,
                         RE_takes_time>>]_vars

\* A plan is in the run engine, the runner BUSY, and a second start has just
\* been answered FAILED.
C26_Witness ==
    /\ run_requests # <<>>
    /\ LastResponse = Request("start", "FAILED")
    /\ InRE
    /\ run_status.status = "BUSY"
    /\ run_started = 1
    /\ run_queue = 0

\* The last request that was not a status request.
RECURSIVE LastCommand(_)
LastCommand(requests) ==
    IF requests = <<>> THEN None
    ELSE IF requests[Len(requests)].request = "status"
         THEN LastCommand(SubSeq(requests, 1, Len(requests) - 1))
         ELSE Some(requests[Len(requests)])

\* The last command was a stop that began an abort, and the abort is over.
AbortFinished ==
    /\ LastCommand(run_requests) = Some(Request("stop", "ABORTING"))
    /\ ~InAbort

\* The run engine's call ends in this step.
PlanEnds == InRE /\ ~InRE'

C27_WitnessAborting ==
    /\ run_requests = <<Request("start", "SUCCESS"), Request("stop", "ABORTING"),
                        Request("status", "ABORTING")>>
    /\ run_stopper = "sleep"
    /\ InRE

\* FAILED with the message of the exception the plan ended with.
FailedWith(ended) ==
    [status |-> "FAILED", message |-> <<"Exception">> \o Val(Val(ended)).args]

\* Neither thread is at work and nothing is queued.
RunnerAtRest == run_worker = "waiting" /\ run_queue = 0 /\ ~InAbort

C28_WitnessOnItsOwn ==
    /\ run_ended = Some(Some(Exception("D'Oh")))
    /\ run_requests = <<Request("start", "SUCCESS")>>
    /\ run_status = [status |-> "FAILED", message |-> <<"Exception", "D'Oh">>]

\* The plan ended on its own, without an exception.
C28_WitnessIdle ==
    /\ run_ended = Some(None)
    /\ run_requests = <<Request("start", "SUCCESS")>>
    /\ run_status.status = "IDLE"

(***************************************************************************)
(*               PROPERTIES OF THE ISPYB DEPOSITION BRACKET                *)
(***************************************************************************)

UpdatesOf(id) == SelectSeq(dep_updates, LAMBDA u : u.id = id)

\* C29: once the deposition bracket is left, every collection record made
\* on entry (both records of a 3D scan) has received exactly one
\* end-time/status update, made for its id, and there are no other updates
\* (an id the store handed out for two records has the two updates of its
\* two records); all the updates carry the same end time and
\* the same status, which is "DataCollection Unsuccessful" exactly when the
\* bracket was left with an exception and "DataCollection Successful"
\* otherwise.
C29_OneUpdatePerRecordOnLeaving ==
    dep_pc = "left" =>
        /\ Len(Val(dep_ids)) = (IF dep_is_3d THEN 2 ELSE 1)
        /\ Len(dep_updates) = Len(Val(dep_ids))
        /\ \A i \in 1..Len(Val(dep_ids)) :
              /\ dep_updates[i].id = Val(dep_ids)[i]
              /\ Len(UpdatesOf(Val(dep_ids)[i])) =
                    Cardinality({j \in 1..Len(Val(dep_ids)) :
                                    Val(dep_ids)[j] = Val(dep_ids)[i]})
        /\ \A i, j \in 1..Len(dep_updates) :
              /\ dep_updates[i].endtime = dep_updates[j].endtime
              /\ dep_updates[i].run_status = dep_updates[j].run_status
        /\ \A i \in 1..Len(dep_updates) :
              /\ dep_updates[i].parentid = Val(dep_group)
              /\ (dep_updates[i].run_status = "DataCollection Unsuccessful")
                    <=> (dep_exception # None)
              /\ (dep_updates[i].run_status = "DataCollection Successful")
                    <=> (dep_exception = None)

\* A 3D bracket left with an exception, the clock having moved on to another
\* second while the two records were updated.
C29_Witness ==
    /\ dep_pc = "left"
    /\ dep_is_3d
    /\ dep_exception # None
    /\ Len(dep_updates) = 2
    /\ dep_updates[1].id # dep_updates[2].id
    /\ get_current_time_string(dep_now) > dep_updates[2].endtime
    /\ dep_updates[1].run_status = "DataCollection Unsuccessful"

(***************************************************************************)
(*          PROPERTIES OF THE NEXUS WRITER OF THE FAST GRID SCAN           *)
(***************************************************************************)

\* C30: the NeXus writer is open only during the scan phase, do_fgs: it is
\* open at kickoff and at complete, it is open at no message outside the
\* staged block around them, it is opened at most once, and however that
\* phase is left, also when the scan raises, it is closed when the plan
\* goes on or ends.
C30_WriterOpenOnlyDuringScan ==
    /\ fast_pc \in ScanMessages => fast_writer = "open"
    /\ fast_writer = "open" =>
          fast_pc \in StageMessages \cup ScanMessages \cup UnstageMessages
    /\ fast_opened <= 1
    /\ fast_pc \in MoveMessages \cup {"close_run", "done", "raised"} =>
          /\ fast_writer # "open"
          /\ fast_closed = fast_opened

\* The scan raised at complete, and the plan has ended with the writer
\* closed.
C30_Witness ==
    /\ fast_pc = "raised"
    /\ fast_fault_at = Some("wait_complete")
    /\ fast_opened = 1
    /\ fast_writer = "closed"

\* The positions in the log of the entries of op made for id.
FastPositions(op, id) ==
    {i \in DOMAIN fast_log : fast_log[i] = FastCall(op, id)}

\* The collection ids of the group.
FastIds == {fast_datacollection_ids[i] : i \in DOMAIN fast_datacollection_ids}

\* The log has an entry of op for every collection id before position p.
ForEveryIdBefore(op, p) ==
    \A id \in FastIds : \E i \in FastPositions(op, id) : i < p

\* C38: run_start is sent for every collection id of the group before the
\* scan is kicked off; run_end is sent for a collection id only after the
\* scan has completed and every record has been given its end status; the
\* wait for the result starts only after run_end was sent for every id.
C38_StartBeforeKickoffEndAfterStatus ==
    /\ \A k \in FastPositions("kickoff", 0) :
          /\ FastIds # {}
          /\ ForEveryIdBefore("run_start", k)
    /\ \A id \in FastIds : \A e \in FastPositions("run_end", id) :
          /\ \E c \in FastPositions("complete", 0) : c < e
          /\ ForEveryIdBefore("update_grid_scan_with_end_time_and_status", e)
    /\ \A w \in FastPositions("wait_for_result", datacollection_group_id) :
          /\ FastIds # {}
          /\ ForEveryIdBefore("run_end", w)
    /\ \A i \in DOMAIN fast_log :
          fast_log[i].op \in {"run_start", "run_end", "wait_for_result",
                              "update_grid_scan_with_end_time_and_status"} =>
              fast_log[i].id \in FastIds \cup {datacollection_group_id}

\* A 3D scan, two records, has run to its end: the result was waited for.
C38_Witness ==
    /\ fast_pc = "done"
    /\ Len(fast_datacollection_ids) = 2
    /\ FastPositions("wait_for_result", datacollection_group_id) # {}
    /\ \A id \in FastIds : FastPositions("run_end", id) # {}

(***************************************************************************)
(*                 PROPERTIES OF THE PARAMETER FLATTENING                  *)
(***************************************************************************)

\* The leaves of a nested dictionary, at every depth, in order.
RECURSIVE LeavesOf(_)
LeavesOf(d) ==
    IF d = <<>> THEN <<>>
    ELSE (IF d[1].is_dict THEN LeavesOf(d[1].d) ELSE <<Item(d[1].k, d[1].v)>>)
         \o LeavesOf(Tail(d))

HasDuplicateLeafKey(d) ==
    \E i, j \in 1..Len(LeavesOf(d)) : i # j /\ LeavesOf(d)[i].k = LeavesOf(d)[j].k

\* C31: flatten_dict raises for every nested dictionary in which a leaf key
\* occurs more than once, at whatever depths; for every other dictionary it
\* returns the flat dictionary of all the leaves, each key once with its
\* value.
C31_FlattenRejectsDuplicates ==
    flat_result # None =>
        IF HasDuplicateLeafKey(flat_input) THEN Val(flat_result).raised
        ELSE /\ ~Val(flat_result).raised
             /\ Val(flat_result).items =
                   {LeavesOf(flat_input)[i] : i \in 1..Len(LeavesOf(flat_input))}

(***************************************************************************)
(*           PROPERTIES OF THE GRID-SCAN PLAN: VALIDATION, MOVES           *)
(***************************************************************************)

\* The checks wait_for_fgs_valid has made, what each read, and its sleeps.
FgsChecks == SelectSeq(plan_log, LAMBDA m : m.op = "check")
FgsChecksPassed == SelectSeq(plan_log, LAMBDA m : m.op = "check" /\ m.n = 0)
FgsSleeps == SelectSeq(plan_log, LAMBDA m : m.op = "sleep" /\ m.arg = "SLEEP_PER_CHECK")

\* wait_for_fgs_valid has returned: the plan is at do_fgs or beyond it.
FgsValidReturned == plan_pc = "do_fgs" \/ Count(plan_log, "stage") > 0

\* C32: wait_for_fgs_valid returns normally only after a check that read
\* scan_invalid false and the position counter 0, which is then its last
\* check; if the first check passes there is no sleep; it makes at most
\* times_to_check = int(timeout / 0.1) checks, sleeps once after each check
\* that failed, and raises WarningException after times_to_check failed
\* checks and as many sleeps.
C32_ValidOrTimesToCheckThenRaise ==
    /\ Len(FgsChecks) <= times_to_check
    /\ Len(FgsChecksPassed) <= 1
    /\ Len(FgsChecksPassed) = 1 => FgsChecks[Len(FgsChecks)].n = 0
    /\ FgsValidReturned => Len(FgsChecksPassed) = 1
    /\ (FgsChecks # <<>> /\ FgsChecks[1].n = 0) => FgsSleeps = <<>>
    /\ Len(FgsSleeps) <= Len(FgsChecks) - Len(FgsChecksPassed)
    /\ Len(FgsSleeps) >= Len(FgsChecks) - Len(FgsChecksPassed) - 1
    /\ (plan_pc = "wait_for_fgs_valid" \/ FgsValidReturned) =>
          Len(FgsSleeps) = Len(FgsChecks) - Len(FgsChecksPassed)
    /\ plan_exc = "WarningException" =>
          /\ Len(FgsChecks) = times_to_check
          /\ FgsChecksPassed = <<>>
          /\ Len(FgsSleeps) = times_to_check

\* Two checks failed, one of them on the position counter alone, each was
\* followed by a sleep, the third passed and the scan was kicked off.
C32_Witness ==
    /\ Len(FgsChecks) = 3
    /\ FgsChecks[1].n = 1
    /\ FgsChecks[3].n = 0
    /\ Len(FgsSleeps) = 2
    /\ Count(plan_log, "kickoff") = 1

\* Every check failed and WarningException has been raised.
C32_WitnessRaised ==
    /\ plan_exc = "WarningException"
    /\ Len(FgsChecks) = times_to_check
    /\ Len(FgsSleeps) = times_to_check

(***************************************************************************)
(*        PROPERTIES OF GRID DETECTION, THEN THE X-RAY CENTRING SCAN       *)
(***************************************************************************)

\* The fly scan has been started.
FlyScanStarted == \E i \in DOMAIN det_log : det_log[i] = "flyscan_xray_centre"

\* What the plan has done when it starts the fly scan.
BeforeFlyScan ==
    <<"subscribe", "grid_detection_plan", "unsubscribe",
      "abs_set backlight OUT", "abs_set aperture SMALL">>

\* C39: the fly scan is started only after grid detection has finished, the
\* backlight-out and the small-aperture commands have been issued and a check
\* has read the detector shutter open and detector z done moving; when no
\* check of the int(timeout / 0.1) reads that, TimeoutError is raised and the
\* fly scan is never started.
C39_FlyScanOnlyWhenDetectorReady ==
    /\ (det_pc = "flyscan_xray_centre" \/ FlyScanStarted) =>
          /\ SubSeq(det_log, 1, Len(BeforeFlyScan)) = BeforeFlyScan
          /\ det_checks \in 1..det_times_to_check
          /\ detector_state = Some(1)
          /\ detector_z_dmov = Some(1)
    /\ det_checks <= det_times_to_check
    /\ det_pc \in {"rd_shutter", "rd_z_dmov"} => det_checks < det_times_to_check
    /\ (det_pc = "sleep" /\ det_checks = det_times_to_check) =>
          ENABLED (det_sleep /\ det_exc' = Some("TimeoutError"))
    /\ det_exc = Some("TimeoutError") =>
          /\ det_pc = "raised"
          /\ det_checks = det_times_to_check
          /\ ~DetectorReady(Val(detector_state), Val(detector_z_dmov))
          /\ ~FlyScanStarted

\* The second check read the shutter open and detector z done, and the fly
\* scan was started.
C39_Witness ==
    /\ det_pc = "done"
    /\ det_checks = 2
    /\ FlyScanStarted
    /\ det_exc = None

\* Every check failed: TimeoutError.
C39_WitnessTimeout ==
    /\ det_exc = Some("TimeoutError")
    /\ det_checks = det_times_to_check
    /\ det_log = BeforeFlyScan

(***************************************************************************)
(*                  PROPERTIES OF THE PANDA SET-UP                         *)
(***************************************************************************)

\* A command of disarm_panda_for_gridscan: an enable set to ZERO.
DisarmCommand(c) ==
    /\ c.op = "abs_set"
    /\ c.value = 0
    /\ \E k \in DOMAIN DisarmSignals : c.signal = DisarmSignals[k]

\* The commands of setup_panda_for_flyscan so far.
SetupLog == SelectSeq(panda_log, LAMBDA c : ~DisarmCommand(c))

\* The signals it has set so far, in the order their commands were issued.
PandaOrder == [i \in DOMAIN SetupLog |-> SetupLog[i].signal]

\* The order of the commands of setup_panda_for_flyscan.
PandaSteps == <<"panda", "inenc1_setp", "seq1_table", "seq1_enable", "pulse1_enable">>

\* The set of the signal was started.
Started(signal) == panda_status[signal] # "unset"

\* The steps are taken in order; the encoder position is set, and its set is
\* done, before the table is; the function returns only with both enables done.
PandaStepsInOrder ==
    /\ PandaOrder = SubSeq(PandaSteps, 1, Len(SetupLog))
    /\ Started("seq1_table") => panda_status["inenc1_setp"] = "done"
    /\ panda_pc = "returned" =>
          /\ panda_status["seq1_enable"] = "done"
          /\ panda_status["pulse1_enable"] = "done"

\* C40 as claimed: the steps are taken in the order load configuration, set
\* encoder position (waited), write sequencer table, arm; the sequencer and
\* the pulse block are enabled only after the table has been written; the
\* function returns only after both enable commands have completed.
C40_EnabledAfterTableWritten ==
    /\ PandaStepsInOrder
    /\ (Started("seq1_enable") \/ Started("pulse1_enable")) =>
          panda_status["seq1_table"] = "done"

\* C40: the steps are taken in the order load configuration, set encoder
\* position (waited), write sequencer table, arm; the enable commands are
\* issued only after the command that writes the table, which is not waited
\* for; the function returns only after both enable commands have completed.
C40_EnabledAfterTableWriteIssued ==
    /\ PandaStepsInOrder
    /\ (Started("seq1_enable") \/ Started("pulse1_enable")) => Started("seq1_table")
    /\ \A i, j \in DOMAIN panda_log :
          (/\ panda_log[i].signal = "seq1_table"
           /\ panda_log[j].signal \in {"seq1_enable", "pulse1_enable"}) => i < j

\* The function has returned, both blocks enabled, with the write of the
\* table still under way.
C40_Witness ==
    /\ panda_pc = "returned"
    /\ panda_status["seq1_enable"] = "done"
    /\ panda_status["pulse1_enable"] = "done"
    /\ panda_status["seq1_table"] = "pending"
    /\ Len(panda_log) = 5

====
